---- MODULE Spec2Model ----
(***************************************************************************)
(* The URL work queue and the crawl executor of tw-news-analysis.          *)
(*                                                                         *)
(* The operational store is SQLite (app/config.py:20) reached through      *)
(* SQLAlchemy sessions with autoflush off (app/database.py:19).  A SELECT  *)
(* takes no lock that outlives the statement, and every session.commit()   *)
(* publishes one transaction; the model therefore has one action per       *)
(* statement-or-commit boundary of a tick, and the variables `pending` and *)
(* `articles` hold the committed tables.                                   *)
(*                                                                         *)
(* This specification follows the queue: a tick is modelled from the call  *)
(* of _execute_list_crawler / _execute_article_crawler to its return, and  *)
(* two ticks of one source can run together because run_now schedules a    *)
(* job under an id of its own (app/scheduler.py:209-214).                  *)
(*                                                                         *)
(* Time is kept relative: a row carries the minutes since its updated_at   *)
(* (`age`), a crawling tick the minutes since asyncio.wait_for started     *)
(* (`elapsed`).  updated_at is read by reset_stale_processing only, and    *)
(* only on PROCESSING rows, so `age` is kept for those rows and is 0 on    *)
(* the others.                                                             *)
(***************************************************************************)
EXTENDS Integers, Sequences, FiniteSets, TLC

\* ------------------------------------------------------------------ bounds
MaxUrls == 3
MaxListLen == 2
MaxLimit == 1
MaxWorkers == 2
RetryCap == 4
ClockStep == 15

\* ------------------------------------------------------- program constants
DefaultMaxRetries == 3
StaleMinutes == 10
TimeoutSeconds == 1800

TimeoutMinutes == TimeoutSeconds \div 60

Sources == {"X", "Y"}
URLs == 1..MaxUrls
ListTicks == 1..MaxWorkers
ArticleTicks == 1..MaxWorkers

\* batch_size of the article crawler of each source: 0 in every crawler of
\* the repository (no limit), a positive cap where a crawler overrides it
NoBatchLimit == [s \in Sources |-> 0]
BatchLimitOnX == [s \in Sources |-> IF s = "X" THEN MaxLimit ELSE 0]

\* A deployment: the URLs each site publishes, the batch_size of each
\* article crawler and the worker threads the pool has for list ticks and
\* for article ticks.  The three cover the lifecycle of a URL under two
\* article ticks, two list ticks that race on URLs of one site, and a queue
\* that holds rows of two sources.
Deployments ==
    { [sites |-> [u \in 1..(MaxUrls - 2) |-> "X"], batch_size |-> NoBatchLimit,
       list_workers |-> MaxWorkers - 1, article_workers |-> MaxWorkers],
      [sites |-> [u \in 1..(MaxUrls - 1) |-> "X"], batch_size |-> NoBatchLimit,
       list_workers |-> MaxWorkers, article_workers |-> 0],
      [sites |-> [u \in URLs |-> IF u = MaxUrls THEN "Y" ELSE "X"],
       batch_size |-> BatchLimitOnX,
       list_workers |-> MaxWorkers - 1, article_workers |-> MaxWorkers - 1] }

UrlStatus == {"PENDING", "PROCESSING", "COMPLETED", "FAILED"}

VARIABLES
    env,              \* the deployment, fixed at start
    pending,          \* table pending_urls: sequence of rows, id = index
    articles,         \* table news_articles: sequence of rows, id = index
    lticks,           \* list-crawler ticks in flight, per worker slot
    aticks,           \* article-crawler ticks in flight, per worker slot
    configs,          \* table crawler_configs: crawler name -> status columns
    jobs,             \* job instances the scheduler's pool is running
    store,            \* news_articles as the archive sees it: id = index
    records,          \* table raw_html_archives: sequence of rows
    files,            \* batch files on disk: path -> content
    manifest,         \* manifest.json of each source directory
    acalls,           \* archive calls in flight: daily cron and manual trigger
    aresult,          \* what each caller's last archive_source call returned
    prun,             \* the PipelineRun row
    pexec,            \* the run_pipeline execution: position, locals, events
    frules,           \* table filter_rules: the active rules, in query order
    fforce,           \* table force_include_articles: the article ids
    fout,             \* what the last filter_articles_batch call returned
    tracking,         \* table article_analysis_tracking: rows in creation order
    batches,          \* the provider's batches: batch id = index
    tsdb,             \* the articles stored in TimescaleDB
    lexec,            \* the analysis call in progress, or the last one
    rjob,             \* the ReparseJob row
    rworker,          \* the reparse worker thread, its cancel flag and registration
    tsrows,           \* TimescaleDB tables articles, article_entities, article_events
    tscall,           \* the store_batch calls made so far and what the last returned
    cdb,              \* table crawler_configs with every column, and the syncs run
    poll              \* a _poll_batch call: the statuses it saw, how it ended

vars == <<env, pending, articles, lticks, aticks, configs, jobs,
          store, records, files, manifest, acalls, aresult, prun, pexec,
          frules, fforce, fout, tracking, batches, tsdb, lexec,
          rjob, rworker, tsrows, tscall, cdb, poll>>

\* what the queue specification leaves alone
execVars == <<configs, jobs>>

\* the archive's tables, files and calls
archVars == <<store, records, files, manifest, acalls, aresult>>

\* what the archive specification leaves alone
crawlVars == <<env, pending, articles, lticks, aticks, configs, jobs>>

\* the pipeline run and its execution
pipeVars == <<prun, pexec, frules, fforce, fout, tracking, batches, tsdb, lexec>>

\* the analysis service's table, provider, result store and call
trackVars == <<tracking, batches, tsdb, lexec>>

\* the rule filter's tables and its last result
filterVars == <<frules, fforce, fout>>

\* the reparse job and its worker, the analytical store and its calls, the
\* crawler registry's table, a polling call
svcVars == <<rjob, rworker, tsrows, tscall, cdb, poll>>

\* ----------------------------------------------------------------- helpers
Range(s) == {s[i] : i \in DOMAIN s}

Min(a, b) == IF a < b THEN a ELSE b

SeqsUpTo(S, n) == UNION {[1..k -> S] : k \in 1..n}

RECURSIVE DedupSeq(_)
DedupSeq(s) ==
    IF s = <<>> THEN <<>>
    ELSE LET front == DedupSeq(SubSeq(s, 1, Len(s) - 1))
             last == s[Len(s)]
         IN IF last \in Range(front) THEN front ELSE Append(front, last)

\* ------------------------------------------------------------ url hashing
compute_url_hash(url) == <<"md5", url>>

PendingHashes(rows) == {compute_url_hash(rows[i].url) : i \in DOMAIN rows}
ArticleHashes(arts) == {arts[i].url_hash : i \in DOMAIN arts}

\* --------------------------------------------------------------- AddURLs
\* the dict {hash: url} of add_urls keeps one key per distinct hash, in
\* first-occurrence order
UrlHashKeys(urls) == DedupSeq([i \in DOMAIN urls |-> compute_url_hash(urls[i])])

UrlOfHash(urls, h) ==
    urls[CHOOSE i \in DOMAIN urls :
            /\ compute_url_hash(urls[i]) = h
            /\ \A j \in DOMAIN urls : compute_url_hash(urls[j]) = h => j <= i]

\* (mutant of NewHashes) the read pass forgets the pending_urls table
NewHashesArticlesOnly(urls, rows, arts) ==
    SelectSeq(UrlHashKeys(urls), LAMBDA h : h \notin ArticleHashes(arts))

NewHashes(urls, rows, arts) ==
    LET existing == ArticleHashes(arts) \cup PendingHashes(rows)
    IN SelectSeq(UrlHashKeys(urls), LAMBDA h : h \notin existing)

NewPendingUrl(url, source, stamp) ==
    [url |-> url, source |-> source, status |-> "PENDING",
     retry_count |-> 0, max_retries |-> DefaultMaxRetries,
     processed_at |-> FALSE, age |-> 0, discovered_at |-> stamp]

\* the rows add_urls hands to session.add, before the commit
AddUrlsRows(urls, source, rows, arts, clock) ==
    LET new == NewHashes(urls, rows, arts)
    IN [i \in DOMAIN new |-> NewPendingUrl(UrlOfHash(urls, new[i]), source, clock + i)]

\* UNIQUE(url) on pending_urls
PendingUniqueOk(rows, newrows) ==
    /\ \A i \in DOMAIN newrows : \A j \in DOMAIN rows : rows[j].url # newrows[i].url
    /\ \A i, j \in DOMAIN newrows : i # j => newrows[i].url # newrows[j].url

\* (mutant of AddUrlsCommit) one commit per row: the rows that collide are
\* dropped and the others stay
AddUrlsCommitPerRow(rows, newrows) ==
    rows \o SelectSeq(newrows,
                LAMBDA r : \A j \in DOMAIN rows : rows[j].url # r.url)

\* session.commit() of add_urls: one transaction for all the added rows; a
\* violated constraint fails the flush and rolls the whole transaction back
AddUrlsCommit(rows, newrows) ==
    IF PendingUniqueOk(rows, newrows) THEN rows \o newrows ELSE rows

\* ------------------------------------------------------------- LeaseURLs
\* (mutant of OrderByDiscoveredAt) ORDER BY discovered_at DESC
RECURSIVE OrderNewestFirst(_, _)
OrderNewestFirst(ids, rows) ==
    IF ids = {} THEN <<>>
    ELSE LET first == CHOOSE i \in ids :
                        \A j \in ids :
                            \/ rows[i].discovered_at > rows[j].discovered_at
                            \/ rows[i].discovered_at = rows[j].discovered_at /\ i >= j
         IN <<first>> \o OrderNewestFirst(ids \ {first}, rows)

RECURSIVE OrderByDiscoveredAt(_, _)
OrderByDiscoveredAt(ids, rows) ==
    IF ids = {} THEN <<>>
    ELSE LET first == CHOOSE i \in ids :
                        \A j \in ids :
                            \/ rows[i].discovered_at < rows[j].discovered_at
                            \/ rows[i].discovered_at = rows[j].discovered_at /\ i <= j
         IN <<first>> \o OrderByDiscoveredAt(ids \ {first}, rows)

\* the SELECT of get_pending_urls: ids in result order
SelectPending(rows, source, limit) ==
    LET ids == {i \in DOMAIN rows :
                  rows[i].source = source /\ rows[i].status = "PENDING"}
        ordered == OrderByDiscoveredAt(ids, rows)
    IN IF limit > 0 THEN SubSeq(ordered, 1, Min(limit, Len(ordered))) ELSE ordered

\* the UPDATE ... WHERE id IN (url_ids) of get_pending_urls
MarkProcessing(rows, ids) ==
    [i \in DOMAIN rows |->
        IF i \in Range(ids)
        THEN [rows[i] EXCEPT !.status = "PROCESSING", !.age = 0]
        ELSE rows[i]]

\* ------------------------------------------------- MarkCompleted / Failed
mark_completed(rows, id) ==
    [rows EXCEPT ![id] = [@ EXCEPT !.status = "COMPLETED",
                                   !.processed_at = TRUE, !.age = 0]]

\* loaded_retry is the retry_count the session's object holds when
\* `pending_url.retry_count += 1` runs
mark_failed(rows, id, loaded_retry) ==
    LET count == loaded_retry + 1
    IN [rows EXCEPT ![id] =
          IF count >= @.max_retries
          THEN [@ EXCEPT !.retry_count = count, !.status = "FAILED",
                         !.processed_at = TRUE, !.age = 0]
          ELSE [@ EXCEPT !.retry_count = count, !.status = "PENDING",
                         !.age = 0]]

\* ----------------------------------------------------------------- resets
\* (mutant of reset_stale_processing) the cutoff on updated_at is dropped
ResetEveryProcessing(rows, minutes) ==
    [i \in DOMAIN rows |->
        IF rows[i].status = "PROCESSING"
        THEN [rows[i] EXCEPT !.status = "PENDING", !.age = 0]
        ELSE rows[i]]

reset_stale_processing(rows, minutes) ==
    [i \in DOMAIN rows |->
        IF rows[i].status = "PROCESSING" /\ rows[i].age > minutes
        THEN [rows[i] EXCEPT !.status = "PENDING", !.age = 0]
        ELSE rows[i]]

\* source = "" stands for None
force_reset_all_processing(rows, source) ==
    [i \in DOMAIN rows |->
        IF rows[i].status = "PROCESSING" /\ (source = "" \/ rows[i].source = source)
        THEN [rows[i] EXCEPT !.status = "PENDING", !.age = 0]
        ELSE rows[i]]

\* --------------------------------------------------------- article store
NewsArticle(url, source) ==
    [url |-> url, url_hash |-> compute_url_hash(url), source |-> source]

\* (mutant of ArticleUniqueOk) news_articles.url without its constraint
ArticleNotUnique(arts, url) == TRUE

\* UNIQUE(url) on news_articles
ArticleUniqueOk(arts, url) == \A i \in DOMAIN arts : arts[i].url # url

\* ------------------------------------------------------------------ Init
IdleList == [pc |-> "idle", source |-> "", urls |-> <<>>, rows |-> <<>>,
             added |-> 0, raised |-> FALSE]

IdleArticle == [pc |-> "idle", source |-> "", sel |-> <<>>, loaded |-> <<>>,
                expired |-> FALSE, arts |-> <<>>, fails |-> <<>>, elapsed |-> 0]

\* a crawler is named by its type and its source
CrawlerNames == {"list", "article"} \X Sources

\* CrawlerConfig as sync_crawlers_to_db creates it
NewConfig == [last_run_status |-> "idle", error_log |-> ""]

ExecIdle ==
    /\ configs = [n \in CrawlerNames |-> NewConfig]
    /\ jobs = [list |-> [t \in ListTicks |-> ""],
               article |-> [t \in ArticleTicks |-> ""]]

\* ---------------------------------------------------------- archive state
MaxArticles == 3
ArchiveBatchSize == 2
MaxBatchNumber == 2
MaxRecords == 3

ArchCallers == {"cron", "manual"}

\* archive_source has not been called, or the caller's session is closed
IdleCall ==
    [phase |-> "idle", todo |-> <<>>, filter |-> "", loaded |-> <<>>,
     next_batch |-> 0, i |-> 0, dirty |-> <<>>]

\* how a caller's last archive_source call ended: archived_count > 0,
\* archived_count = 0, or an exception
ArchOutcomes == {"none", "archived", "nothing", "raised"}

NoResult == "none"

\* no archive exists yet: empty table, empty directories, nothing in flight
ArchiveIdle ==
    /\ store = <<>>
    /\ records = <<>>
    /\ files = <<>>
    /\ manifest = [s \in Sources |-> <<>>]
    /\ acalls = [c \in ArchCallers |-> IdleCall]
    /\ aresult = [c \in ArchCallers |-> NoResult]

\* --------------------------------------------------------- pipeline state
NewPipelineRun ==
    [status |-> "PENDING", current_stage |-> "", total_articles |-> 0,
     filter_rows |-> 0, kept_rows |-> 0, forced_rows |-> 0, article_rows |-> <<>>,
     analysis_rows |-> 0,
     rule_filtered_count |-> 0, rule_passed_count |-> 0, analyzed_count |-> 0,
     force_included_count |-> 0,
     batch_id |-> 0]

\* run_pipeline is not executing
IdleExec ==
    [pc |-> "idle", until_stage |-> "", matching |-> 0, processed |-> 0,
     passed |-> 0, log |-> <<>>]

\* no filter_articles_batch call has returned yet
NoBatch == [articles |-> <<>>, results |-> <<>>, passed |-> <<>>]

\* no rules, nobody force-included
FilterIdle ==
    /\ frules = <<>>
    /\ fforce = {}
    /\ fout = NoBatch

\* no analysis call is executing; op and raised tell which call was the last
\* one and how it ended
IdleAnalysis ==
    [op |-> "idle", pc |-> "idle", articles |-> {}, batch |-> 0, records |-> {},
     raised |-> "", resumed |-> FALSE]

\* nothing analysed yet
TrackIdle ==
    /\ tracking = <<>>
    /\ batches = <<>>
    /\ tsdb = {}
    /\ lexec = IdleAnalysis

\* no reparse job was started
NoReparseJob ==
    [status |-> "", total_count |-> 0, processed_count |-> 0, failed_count |-> 0]

NoWorker ==
    [pc |-> "none", has_crawler |-> FALSE, in_db |-> 0, archived |-> 0, i |-> 0,
     processed |-> 0, failed |-> 0, cancel_event |-> FALSE, registered |-> FALSE,
     returned |-> "", reparsed |-> 0]

\* the analytical store is empty
NoRows == [articles |-> <<>>, article_entities |-> <<>>, article_events |-> <<>>]

\* store_batch was not called
NoStoreCall ==
    [calls |-> 0, articles_map |-> <<>>, responses |-> <<>>, outcome |-> <<>>,
     stored |-> 0, failures |-> <<>>, inserted |-> 0]

\* crawler_configs is empty, sync_crawlers_to_db has not run
NoConfigs == [rows |-> <<>>, syncs |-> 0]

\* _poll_batch was not called
NoPoll == [pc |-> "idle", elapsed |-> 0, seen |-> <<>>, outcome |-> ""]

SvcIdle ==
    /\ rjob = NoReparseJob
    /\ rworker = NoWorker
    /\ tsrows = NoRows
    /\ tscall = NoStoreCall
    /\ cdb = NoConfigs
    /\ poll = NoPoll

PipeIdle ==
    /\ prun = NewPipelineRun
    /\ pexec = IdleExec
    /\ FilterIdle
    /\ TrackIdle

Init ==
    /\ env \in Deployments
    /\ pending = <<>>
    /\ articles = <<>>
    /\ lticks = [t \in ListTicks |-> IdleList]
    /\ aticks = [t \in ArticleTicks |-> IdleArticle]
    /\ ExecIdle
    /\ SvcIdle
    /\ ArchiveIdle
    /\ PipeIdle

\* the pool hands a job to a free worker; which one is immaterial, so the
\* lowest free slot takes it
FreeSlot(ticks, t, workers) ==
    /\ t <= workers
    /\ ticks[t].pc = "idle"
    /\ \A o \in DOMAIN ticks : o < t => ticks[o].pc # "idle"

\* ------------------------------------------------------ list-crawler tick
\* discovered_at is datetime.utcnow() at the construction of the row, later
\* than every stamp handed out before; only the order of the stamps is
\* read (ORDER BY discovered_at), so a stamp is a rank: one more than the
\* latest stamp still held by a row, committed or waiting for its commit
Max(S) == IF S = {} THEN 0 ELSE CHOOSE x \in S : \A y \in S : y <= x

LastStamp ==
    Max({pending[i].discovered_at : i \in DOMAIN pending}
        \cup UNION {{lticks[t].rows[i].discovered_at : i \in DOMAIN lticks[t].rows} :
                      t \in ListTicks})

\* crawler.run() returned success with `urls`; add_urls does its read pass
\* and builds the new rows
ListCrawled(t, source, urls) ==
    /\ FreeSlot(lticks, t, env.list_workers)
    /\ \A i \in DOMAIN urls :
          urls[i] \in DOMAIN env.sites /\ env.sites[urls[i]] = source
    /\ LET rows == AddUrlsRows(urls, source, pending, articles, LastStamp)
       IN lticks' = [lticks EXCEPT ![t] =
             [IdleList EXCEPT !.source = source, !.urls = urls, !.rows = rows,
                              !.pc = IF rows = <<>> THEN "done" ELSE "commit"]]
    /\ UNCHANGED <<env, pending, articles, aticks>>

AddCommit(t) ==
    /\ lticks[t].pc = "commit"
    /\ pending' = AddUrlsCommit(pending, lticks[t].rows)
    /\ lticks' = [lticks EXCEPT ![t] =
          IF Len(pending') > Len(pending)
          THEN [@ EXCEPT !.pc = "done", !.added = Len(lticks[t].rows)]
          ELSE [@ EXCEPT !.pc = "done", !.raised = TRUE]]
    /\ UNCHANGED <<env, articles, aticks>>

\* add_urls has returned or raised; the tick ends
ListFinish(t) ==
    /\ lticks[t].pc = "done"
    /\ lticks' = [lticks EXCEPT ![t] = IdleList]
    /\ UNCHANGED <<env, pending, articles, aticks>>

\* --------------------------------------------------- article-crawler tick
PositionIn(seq, x) == CHOOSE i \in DOMAIN seq : seq[i] = x

\* reset_stale_processing(minutes=10), then get_pending_urls up to its
\* SELECT with limit = crawler.batch_size.  No statement of another session
\* between the two changes what the SELECT returns, so they are one step.
TickBegin(t, source) ==
    /\ FreeSlot(aticks, t, env.article_workers)
    /\ pending' = reset_stale_processing(pending, StaleMinutes)
    /\ LET ids == SelectPending(pending', source, env.batch_size[source])
       IN aticks' = [aticks EXCEPT ![t] =
             IF ids = <<>> THEN IdleArticle
             ELSE [IdleArticle EXCEPT !.sel = ids, !.pc = "update",
                                      !.source = source]]
    /\ UNCHANGED <<env, articles, lticks>>

\* get_pending_urls from its UPDATE to the refresh of the returned objects
TickLease(t) ==
    /\ aticks[t].pc = "update"
    /\ pending' = MarkProcessing(pending, aticks[t].sel)
    /\ aticks' = [aticks EXCEPT ![t] =
          [@ EXCEPT !.pc = "crawl", !.elapsed = 0, !.expired = FALSE,
                    !.loaded = [i \in DOMAIN aticks[t].sel |->
                                    pending'[aticks[t].sel[i]].retry_count]]]
    /\ UNCHANGED <<env, articles, lticks>>

\* crawler.run(urls) returned: `good` are the leased rows whose
\* fetch_article returned, the others are in failed_urls.  A result with
\* success = False marks every leased row failed, as good = {} does.
TickCrawled(t, good) ==
    /\ aticks[t].pc = "crawl"
    /\ good \subseteq Range(aticks[t].sel)
    /\ aticks' = [aticks EXCEPT ![t] =
          [@ EXCEPT !.pc = "store",
                    !.arts = SelectSeq(aticks[t].sel, LAMBDA i : i \in good),
                    !.fails = SelectSeq(aticks[t].sel, LAMBDA i : i \notin good)]]
    /\ UNCHANGED <<env, pending, articles, lticks>>

\* asyncio.wait_for raised TimeoutError: nothing is marked, the tick ends
TickTimeout(t) ==
    /\ aticks[t].pc = "crawl"
    /\ aticks[t].elapsed >= TimeoutMinutes
    /\ aticks' = [aticks EXCEPT ![t] = IdleArticle]
    /\ UNCHANGED <<env, pending, articles, lticks>>

\* (mutant of AfterItem) the tick returns once its articles are saved and the
\* loop over failed_urls has run once
AfterItemFirstFailure(tick, arts, fails) ==
    IF arts = <<>> THEN IdleArticle
    ELSE [tick EXCEPT !.arts = arts, !.fails = fails, !.expired = TRUE]

\* the tick after one more commit of its result loop
AfterItem(tick, arts, fails) ==
    IF arts = <<>> /\ fails = <<>> THEN IdleArticle
    ELSE [tick EXCEPT !.arts = arts, !.fails = fails, !.expired = TRUE]

\* session.add(article) and mark_completed: one commit for both
TickStoreArticle(t) ==
    /\ aticks[t].pc = "store"
    /\ aticks[t].arts # <<>>
    /\ LET id == Head(aticks[t].arts)
           url == pending[id].url
       IN IF ArticleUniqueOk(articles, url)
          THEN /\ articles' = Append(articles, NewsArticle(url, aticks[t].source))
               /\ pending' = mark_completed(pending, id)
               /\ aticks' = [aticks EXCEPT ![t] =
                     AfterItem(@, Tail(aticks[t].arts), aticks[t].fails)]
          ELSE \* IntegrityError: the transaction is rolled back, the tick fails
               /\ aticks' = [aticks EXCEPT ![t] = IdleArticle]
               /\ UNCHANGED <<env, pending, articles>>
    /\ UNCHANGED <<env, lticks>>

\* the retry_count session.get returns: the object refreshed at the lease
\* until a commit of this session has expired it, the row afterwards
LoadedRetry(tick, rows, id) ==
    IF tick.expired THEN rows[id].retry_count
    ELSE tick.loaded[PositionIn(tick.sel, id)]

TickMarkFailed(t) ==
    /\ aticks[t].pc = "store"
    /\ aticks[t].arts = <<>>
    /\ aticks[t].fails # <<>>
    /\ LET id == Head(aticks[t].fails)
           base == LoadedRetry(aticks[t], pending, id)
       IN /\ base < RetryCap
          /\ pending' = mark_failed(pending, id, base)
          /\ aticks' = [aticks EXCEPT ![t] =
                AfterItem(@, aticks[t].arts, Tail(aticks[t].fails))]
    /\ UNCHANGED <<env, articles, lticks>>

\* ------------------------------------------------------------------ time
AgeCap == StaleMinutes + 1

Advance ==
    /\ \A t \in ArticleTicks :
          aticks[t].pc = "crawl" => aticks[t].elapsed < TimeoutMinutes
    /\ pending' = [i \in DOMAIN pending |->
          IF pending[i].status = "PROCESSING"
          THEN [pending[i] EXCEPT !.age = Min(@ + ClockStep, AgeCap)]
          ELSE pending[i]]
    /\ aticks' = [t \in ArticleTicks |->
          IF aticks[t].pc = "crawl"
          THEN [aticks[t] EXCEPT !.elapsed = Min(@ + ClockStep, TimeoutMinutes)]
          ELSE aticks[t]]
    /\ <<pending', aticks'>> # <<pending, aticks>>
    /\ UNCHANGED <<env, articles, lticks>>

\* ------------------------------------------------------- crash and start
\* the process dies with its worker threads; the next start runs lifespan,
\* which calls force_reset_all_processing() before the scheduler starts
Restart ==
    /\ \/ \E l \in ListTicks : lticks[l].pc # "idle"
       \/ \E a \in ArticleTicks : aticks[a].pc # "idle"
    /\ lticks' = [t \in ListTicks |-> IdleList]
    /\ aticks' = [t \in ArticleTicks |-> IdleArticle]
    /\ pending' = force_reset_all_processing(pending, "")
    /\ UNCHANGED <<env, articles>>

\* ------------------------------------------------------------------ Next
\* the queue on its own: the status columns of crawler_configs are not read
\* by any queue operation and are followed in ExecSpec
Next ==
    \/ \E t \in ListTicks, s \in Sources,
          urls \in {<<>>} \cup SeqsUpTo(URLs, MaxListLen) :
            ListCrawled(t, s, urls) /\ UNCHANGED <<execVars, archVars, pipeVars, svcVars>>
    \/ \E t \in ListTicks : AddCommit(t) /\ UNCHANGED <<execVars, archVars, pipeVars, svcVars>>
    \/ \E t \in ListTicks : ListFinish(t) /\ UNCHANGED <<execVars, archVars, pipeVars, svcVars>>
    \/ \E t \in ArticleTicks, s \in Sources : TickBegin(t, s) /\ UNCHANGED <<execVars, archVars, pipeVars, svcVars>>
    \/ \E t \in ArticleTicks : TickLease(t) /\ UNCHANGED <<execVars, archVars, pipeVars, svcVars>>
    \/ \E t \in ArticleTicks, good \in SUBSET (1..MaxUrls) :
            TickCrawled(t, good) /\ UNCHANGED <<execVars, archVars, pipeVars, svcVars>>
    \/ \E t \in ArticleTicks : TickTimeout(t) /\ UNCHANGED <<execVars, archVars, pipeVars, svcVars>>
    \/ \E t \in ArticleTicks : TickStoreArticle(t) /\ UNCHANGED <<execVars, archVars, pipeVars, svcVars>>
    \/ \E t \in ArticleTicks : TickMarkFailed(t) /\ UNCHANGED <<execVars, archVars, pipeVars, svcVars>>
    \/ Advance /\ UNCHANGED <<execVars, archVars, pipeVars, svcVars>>
    \/ Restart /\ UNCHANGED <<execVars, archVars, pipeVars, svcVars>>

Spec == Init /\ [][Next]_vars

\* ------------------------------------------- fair runs of a single worker
\* One site with one URL, one list worker and one article worker, and no
\* crash.  The interval triggers keep firing (app/scheduler.py:94-100), a
\* commit that is due is made, a crawl ends with its result or with the
\* timeout of asyncio.wait_for, and time passes.
SingleWorker ==
    [sites |-> [u \in {1} |-> "X"], batch_size |-> NoBatchLimit,
     list_workers |-> 1, article_workers |-> 1]

FairInit ==
    /\ env = SingleWorker
    /\ pending = <<>>
    /\ articles = <<>>
    /\ lticks = [t \in ListTicks |-> IdleList]
    /\ aticks = [t \in ArticleTicks |-> IdleArticle]
    /\ ExecIdle
    /\ SvcIdle
    /\ ArchiveIdle
    /\ PipeIdle

ListStep ==
    \/ \E t \in ListTicks, s \in Sources,
          urls \in {<<>>} \cup SeqsUpTo(URLs, MaxListLen) :
            ListCrawled(t, s, urls) /\ UNCHANGED <<execVars, archVars, pipeVars, svcVars>>
    \/ \E t \in ListTicks : AddCommit(t) /\ UNCHANGED <<execVars, archVars, pipeVars, svcVars>>
    \/ \E t \in ListTicks : ListFinish(t) /\ UNCHANGED <<execVars, archVars, pipeVars, svcVars>>

TickBeginStep ==
    \E t \in ArticleTicks, s \in Sources : TickBegin(t, s) /\ UNCHANGED <<execVars, archVars, pipeVars, svcVars>>

TickCommitStep ==
    \/ \E t \in ArticleTicks : TickLease(t) /\ UNCHANGED <<execVars, archVars, pipeVars, svcVars>>
    \/ \E t \in ArticleTicks : TickStoreArticle(t) /\ UNCHANGED <<execVars, archVars, pipeVars, svcVars>>
    \/ \E t \in ArticleTicks : TickMarkFailed(t) /\ UNCHANGED <<execVars, archVars, pipeVars, svcVars>>

CrawlEndStep ==
    \/ \E t \in ArticleTicks, good \in SUBSET (1..MaxUrls) :
            TickCrawled(t, good) /\ UNCHANGED <<execVars, archVars, pipeVars, svcVars>>
    \/ \E t \in ArticleTicks : TickTimeout(t) /\ UNCHANGED <<execVars, archVars, pipeVars, svcVars>>

TimeStep == Advance /\ UNCHANGED <<execVars, archVars, pipeVars, svcVars>>

FairNext == ListStep \/ TickBeginStep \/ TickCommitStep \/ CrawlEndStep \/ TimeStep

FairSpec ==
    /\ FairInit
    /\ [][FairNext]_vars
    /\ WF_vars(ListStep)
    /\ WF_vars(TickBeginStep)
    /\ WF_vars(TickCommitStep)
    /\ WF_vars(CrawlEndStep)
    /\ WF_vars(TimeStep)

\* -------------------------------------------------- scheduler and executor
\* execute_crawler_isolated around the ticks of the queue: the status
\* columns of crawler_configs, and the job instance each tick runs in.  A
\* job instance comes from the interval job of the crawler ("interval",
\* max_instances = 1 per job id) or from run_now, which adds a job under an
\* id of its own ("immediate").
ExecDeployment ==
    [sites |-> [u \in {1} |-> "X"], batch_size |-> NoBatchLimit,
     list_workers |-> MaxWorkers, article_workers |-> MaxWorkers - 1]

\* the crawlers the registry holds in a deployment
Registered == {n \in CrawlerNames : n[2] \in Range(env.sites)}

ExecInit ==
    /\ env = ExecDeployment
    /\ pending = <<>>
    /\ articles = <<>>
    /\ lticks = [t \in ListTicks |-> IdleList]
    /\ aticks = [t \in ArticleTicks |-> IdleArticle]
    /\ ExecIdle
    /\ SvcIdle
    /\ ArchiveIdle
    /\ PipeIdle

\* config.last_run_status = RUNNING; session.commit()
SetRunning(cfgs, n) == [cfgs EXCEPT ![n].last_run_status = "running"]

\* result.success: SUCCESS and error_log = None
SetSuccess(cfgs, n) ==
    [cfgs EXCEPT ![n] = [last_run_status |-> "success", error_log |-> ""]]

\* a failure result, or asyncio.TimeoutError: FAILED and its error_log
SetFailed(cfgs, n, error) ==
    [cfgs EXCEPT ![n] = [last_run_status |-> "failed", error_log |-> error]]

\* a session.commit() of the tick failed in its flush: the handler sets
\* FAILED on the object, but the session refuses every statement until it
\* is rolled back, the final commit raises, and the outer handler rolls
\* back: the row keeps what was committed last
CommitFailed(cfgs, n) == cfgs

\* (mutant of reset_running_crawlers) the WHERE clause is dropped
ResetAllCrawlers(cfgs) ==
    [n \in DOMAIN cfgs |-> [cfgs[n] EXCEPT !.last_run_status = "idle"]]

reset_running_crawlers(cfgs) ==
    [n \in DOMAIN cfgs |->
        IF cfgs[n].last_run_status = "running"
        THEN [cfgs[n] EXCEPT !.last_run_status = "idle"]
        ELSE cfgs[n]]

\* the instances of the crawler's jobs that are executing
Instances(kind, s) ==
    IF kind = "list"
    THEN {t \in ListTicks : lticks[t].pc # "idle" /\ lticks[t].source = s}
    ELSE {t \in ArticleTicks : aticks[t].pc # "idle" /\ aticks[t].source = s}

\* the scheduler submits a run of the interval job only while no instance
\* of that job id is executing; a run-now job has a fresh id
MaySubmit(kind, s, origin) ==
    /\ <<kind, s>> \in Registered
    /\ origin = "interval" =>
          \A t \in Instances(kind, s) : jobs[kind][t] # "interval"

\* run_now is requested for list crawlers here; an article tick runs alone
\* whatever its origin
Origins(kind) == IF kind = "list" THEN {"interval", "immediate"} ELSE {"interval"}

\* a list tick from its start to the read pass of add_urls
ExecListCrawled(t, s, urls, origin) ==
    /\ MaySubmit("list", s, origin)
    /\ ListCrawled(t, s, urls)
    /\ configs' = SetRunning(configs, <<"list", s>>)
    /\ jobs' = [jobs EXCEPT !["list"][t] = origin]

\* a list tick whose crawler returned a failure result or ran into the
\* timeout of asyncio.wait_for
ExecListFailed(t, s, origin, error) ==
    /\ MaySubmit("list", s, origin)
    /\ FreeSlot(lticks, t, env.list_workers)
    /\ configs' = SetFailed(configs, <<"list", s>>, error)
    /\ UNCHANGED <<env, pending, articles, lticks, aticks, jobs>>

ExecAddCommit(t) == AddCommit(t) /\ UNCHANGED execVars

ExecListFinish(t) ==
    /\ ListFinish(t)
    /\ configs' = IF lticks[t].raised
                  THEN CommitFailed(configs, <<"list", lticks[t].source>>)
                  ELSE SetSuccess(configs, <<"list", lticks[t].source>>)
    /\ jobs' = [jobs EXCEPT !["list"][t] = ""]

\* an article tick from its start to the SELECT of its lease; with nothing
\* to lease it returns a success result at once
ExecTickBegin(t, s, origin) ==
    /\ MaySubmit("article", s, origin)
    /\ TickBegin(t, s)
    /\ IF aticks'[t].pc = "idle"
       THEN /\ configs' = SetSuccess(configs, <<"article", s>>)
            /\ UNCHANGED jobs
       ELSE /\ configs' = SetRunning(configs, <<"article", s>>)
            /\ jobs' = [jobs EXCEPT !["article"][t] = origin]

ExecTickLease(t) == TickLease(t) /\ UNCHANGED execVars

ExecTickCrawled(t, good) == TickCrawled(t, good) /\ UNCHANGED execVars

ExecTickTimeout(t) ==
    /\ TickTimeout(t)
    /\ configs' = SetFailed(configs, <<"article", aticks[t].source>>, "timeout")
    /\ jobs' = [jobs EXCEPT !["article"][t] = ""]

ExecTickStoreArticle(t) ==
    /\ TickStoreArticle(t)
    /\ IF aticks'[t].pc = "idle"
       THEN /\ configs' = IF articles' = articles
                          THEN CommitFailed(configs, <<"article", aticks[t].source>>)
                          ELSE SetSuccess(configs, <<"article", aticks[t].source>>)
            /\ jobs' = [jobs EXCEPT !["article"][t] = ""]
       ELSE UNCHANGED execVars

ExecTickMarkFailed(t) ==
    /\ TickMarkFailed(t)
    /\ IF aticks'[t].pc = "idle"
       THEN /\ configs' = SetSuccess(configs, <<"article", aticks[t].source>>)
            /\ jobs' = [jobs EXCEPT !["article"][t] = ""]
       ELSE UNCHANGED execVars

ExecAdvance == Advance /\ UNCHANGED execVars

\* crash, then lifespan: reset_running_crawlers and
\* force_reset_all_processing run before the scheduler is started
ExecRestart ==
    /\ Restart
    /\ configs' = reset_running_crawlers(configs)
    /\ jobs' = [list |-> [t \in ListTicks |-> ""],
                article |-> [t \in ArticleTicks |-> ""]]

ExecNext ==
    \/ \E t \in ListTicks, s \in Sources, o \in Origins("list"),
          urls \in {<<>>} \cup SeqsUpTo(URLs, MaxListLen) : ExecListCrawled(t, s, urls, o) /\ UNCHANGED <<archVars, pipeVars, svcVars>>
    \/ \E t \in ListTicks, s \in Sources, o \in Origins("list") :
          ExecListFailed(t, s, o, "result") /\ UNCHANGED <<archVars, pipeVars, svcVars>>
    \/ \E t \in ListTicks : ExecAddCommit(t) /\ UNCHANGED <<archVars, pipeVars, svcVars>>
    \/ \E t \in ListTicks : ExecListFinish(t) /\ UNCHANGED <<archVars, pipeVars, svcVars>>
    \/ \E t \in ArticleTicks, s \in Sources, o \in Origins("article") :
          ExecTickBegin(t, s, o) /\ UNCHANGED <<archVars, pipeVars, svcVars>>
    \/ \E t \in ArticleTicks : ExecTickLease(t) /\ UNCHANGED <<archVars, pipeVars, svcVars>>
    \/ \E t \in ArticleTicks, good \in SUBSET (1..MaxUrls) : ExecTickCrawled(t, good) /\ UNCHANGED <<archVars, pipeVars, svcVars>>
    \/ \E t \in ArticleTicks : ExecTickTimeout(t) /\ UNCHANGED <<archVars, pipeVars, svcVars>>
    \/ \E t \in ArticleTicks : ExecTickStoreArticle(t) /\ UNCHANGED <<archVars, pipeVars, svcVars>>
    \/ \E t \in ArticleTicks : ExecTickMarkFailed(t) /\ UNCHANGED <<archVars, pipeVars, svcVars>>
    \/ ExecAdvance /\ UNCHANGED <<archVars, pipeVars, svcVars>>
    \/ ExecRestart /\ UNCHANGED <<archVars, pipeVars, svcVars>>

ExecSpec == ExecInit /\ [][ExecNext]_vars

\* ========================================================= archive engine
\* NewsArticle rows as the archive engine reads them; crawled_at is kept as
\* the day it falls on, and an absent raw_html (None or "") is ""
ArchDays == {"old", "yesterday", "today"}

HtmlOf == <<"h1", "h2", "h3">>

ArchArticle(source, day, html) == [source |-> source, day |-> day, raw_html |-> html]

\* the article tables an archive run may find when it starts
ArchScenarios ==
    { <<ArchArticle("X", "yesterday", HtmlOf[1]), ArchArticle("X", "old", HtmlOf[2])>>,
      <<ArchArticle("X", "yesterday", HtmlOf[1]), ArchArticle("X", "yesterday", HtmlOf[2]),
        ArchArticle("X", "yesterday", HtmlOf[3])>>,
      <<ArchArticle("X", "yesterday", HtmlOf[1]), ArchArticle("Y", "yesterday", HtmlOf[2])>> }

ArchiveInit ==
    /\ env = SingleWorker
    /\ pending = <<>>
    /\ articles = <<>>
    /\ lticks = [t \in ListTicks |-> IdleList]
    /\ aticks = [t \in ArticleTicks |-> IdleArticle]
    /\ ExecIdle
    /\ SvcIdle
    /\ PipeIdle
    /\ store \in ArchScenarios
    /\ records = <<>>
    /\ files = <<>>
    /\ manifest = [s \in Sources |-> <<>>]
    /\ acalls = [c \in ArchCallers |-> IdleCall]
    /\ aresult = [c \in ArchCallers |-> NoResult]

\* the date predicate: target_date (the cron's yesterday), before_date (the
\* endpoint's default, 30 days back) or no date limit
ArchFilters == {"target", "before", "all"}

FilterDays(filter) ==
    CASE filter = "target" -> {"yesterday"}
      [] filter = "before" -> {"old"}
      [] OTHER -> ArchDays

SourceOrder == <<"X", "Y">>

IsStored(s) == \E id \in DOMAIN store : store[id].source = s

get_all_sources == SelectSeq(SourceOrder, IsStored)

ArchivedIds == {records[r].article_id : r \in {q \in DOMAIN records : records[q].status = "ARCHIVED"}}

\* mutant: every article of the source is selected again
EligibleAllOfSource(source, filter) ==
    {id \in DOMAIN store : store[id].source = source}

\* the articles archive_source selects
Eligible(source, filter) ==
    {id \in DOMAIN store :
        /\ store[id].source = source
        /\ store[id].raw_html # ""
        /\ store[id].day \in FilterDays(filter)
        /\ id \notin ArchivedIds}

SetToSeq(S) ==
    LET n == Cardinality(S)
        F[k \in 0..n] ==
            IF k = 0 THEN <<>>
            ELSE LET prev == F[k - 1]
                     rest == S \ Range(prev)
                 IN  Append(prev, CHOOSE x \in rest : \A y \in rest : x <= y)
    IN  F[n]

\* the session's objects: id and raw_html as loaded by the query
Loaded(ids) == [k \in 1..Len(ids) |-> [id |-> ids[k], raw_html |-> store[ids[k]].raw_html]]

BatchNumbers(source) == {p[2] : p \in {q \in DOMAIN files : q[1] = source}}

_get_next_batch_number(source) ==
    IF BatchNumbers(source) = {} THEN 1
    ELSE Max(BatchNumbers(source)) + 1

\* json.dump into gzip.open(..., "wt"): the list of {article_id, raw_html}
DumpBatch(batch) ==
    [articles |-> [k \in DOMAIN batch |->
                      [article_id |-> batch[k].id, raw_html |-> batch[k].raw_html]]]

\* the dict built from a batch file: a later item wins
html_lookup(data) ==
    [id \in {data.articles[k].article_id : k \in DOMAIN data.articles} |->
        LET last == Max({k \in DOMAIN data.articles : data.articles[k].article_id = id})
        IN  data.articles[last].raw_html]

WriteFile(path, data) ==
    [p \in DOMAIN files \cup {path} |-> IF p = path THEN data ELSE files[p]]

_update_manifest(source, batch_num, batch) ==
    [manifest EXCEPT ![source] =
        Append(@, [filename |-> batch_num,
                   article_ids |-> [k \in DOMAIN batch |-> batch[k].id],
                   count |-> Len(batch)])]

CurrentSource(call) == Head(call.todo)

BatchOf(call) ==
    SubSeq(call.loaded, call.i * ArchiveBatchSize + 1,
           Min(call.i * ArchiveBatchSize + ArchiveBatchSize, Len(call.loaded)))

BatchPath(call) == <<CurrentSource(call), call.next_batch + call.i>>

NumBatches(n) == (n + ArchiveBatchSize - 1) \div ArchiveBatchSize

\* the run stays within the batch numbers and table rows that are explored
WithinBounds(call, source, n) ==
    /\ _get_next_batch_number(source) + NumBatches(n) - 1 <= MaxBatchNumber
    /\ Len(records) + Len(call.dirty) + n <= MaxRecords

\* archive_source has returned or raised: the caller goes on to its next
\* source on the same session, or closes the session
Returned(call, dirty) ==
    IF Len(call.todo) <= 1 THEN IdleCall
    ELSE [IdleCall EXCEPT !.phase = "query", !.todo = Tail(call.todo),
                          !.filter = call.filter, !.dirty = dirty]

\* the daily cron job: every source, target_date = yesterday, one session
DailyArchive ==
    /\ acalls["cron"].phase = "idle"
    /\ get_all_sources # <<>>
    /\ acalls' = [acalls EXCEPT !["cron"] =
                     [IdleCall EXCEPT !.phase = "query", !.todo = get_all_sources,
                                      !.filter = "target"]]
    /\ UNCHANGED <<store, records, files, manifest, aresult>>

\* POST /api/data/archive for one source
ManualArchive(source, filter) ==
    /\ acalls["manual"].phase = "idle"
    /\ acalls' = [acalls EXCEPT !["manual"] =
                     [IdleCall EXCEPT !.phase = "query", !.todo = <<source>>,
                                      !.filter = filter]]
    /\ UNCHANGED <<store, records, files, manifest, aresult>>

\* archive_source up to the batch loop: the query, then the directory scan
ArchiveQuery(c) ==
    LET call == acalls[c]
        source == CurrentSource(call)
        ids == SetToSeq(Eligible(source, call.filter))
    IN  /\ call.phase = "query"
        /\ IF ids = <<>>
           THEN /\ acalls' = [acalls EXCEPT ![c] = Returned(call, call.dirty)]
                /\ aresult' = [aresult EXCEPT ![c] = "nothing"]
           ELSE /\ WithinBounds(call, source, Len(ids))
                /\ acalls' = [acalls EXCEPT ![c] =
                                 [call EXCEPT !.phase = "batches", !.loaded = Loaded(ids),
                                              !.next_batch = _get_next_batch_number(source),
                                              !.i = 0]]
                /\ UNCHANGED aresult
        /\ UNCHANGED <<store, records, files, manifest>>

NewArchiveRecord(article_id, source, path) ==
    [article_id |-> article_id, source |-> source, archive_path |-> path,
     status |-> "ARCHIVED"]

\* one pass of the batch loop: the file, the session's new records and
\* cleared raw_html, the manifest entry
ArchiveWriteBatch(c) ==
    LET call == acalls[c]
        batch == BatchOf(call)
        path == BatchPath(call)
    IN  /\ call.phase = "batches"
        /\ call.i * ArchiveBatchSize < Len(call.loaded)
        /\ files' = WriteFile(path, DumpBatch(batch))
        /\ manifest' = _update_manifest(CurrentSource(call), path[2], batch)
        /\ acalls' = [acalls EXCEPT ![c] =
               [call EXCEPT !.i = call.i + 1,
                            !.dirty = call.dirty \o
                                [k \in DOMAIN batch |->
                                    NewArchiveRecord(batch[k].id, CurrentSource(call), path)]]]
        /\ UNCHANGED <<store, records, aresult>>

DirtyIds(dirty) == {dirty[k].article_id : k \in DOMAIN dirty}

\* session.commit(): INSERT the new records, UPDATE raw_html to NULL
CommitDirty(dirty) ==
    /\ records' = records \o dirty
    /\ store' = [id \in DOMAIN store |->
                    IF id \in DirtyIds(dirty)
                    THEN [store[id] EXCEPT !.raw_html = ""] ELSE store[id]]

\* the loop is over: the one commit of archive_source, then the result
ArchiveCommit(c) ==
    LET call == acalls[c]
    IN  /\ call.phase = "batches"
        /\ call.i * ArchiveBatchSize >= Len(call.loaded)
        /\ CommitDirty(call.dirty)
        /\ acalls' = [acalls EXCEPT ![c] = Returned(call, <<>>)]
        /\ aresult' = [aresult EXCEPT ![c] = "archived"]
        /\ UNCHANGED <<files, manifest>>

\* writing the next batch file raises (OSError): the cron logs it and goes
\* on with the session as it is, the endpoint's session is closed
ArchiveFail(c) ==
    LET call == acalls[c]
    IN  /\ call.phase = "batches"
        /\ call.i * ArchiveBatchSize < Len(call.loaded)
        /\ acalls' = [acalls EXCEPT ![c] = Returned(call, call.dirty)]
        /\ aresult' = [aresult EXCEPT ![c] = "raised"]
        /\ UNCHANGED <<store, records, files, manifest>>

\* restore_raw_html(article_ids)
Restorable(ids) ==
    {r \in DOMAIN records :
        /\ records[r].article_id \in ids
        /\ records[r].status = "ARCHIVED"
        /\ records[r].archive_path \in DOMAIN files
        /\ records[r].article_id \in DOMAIN html_lookup(files[records[r].archive_path])
        /\ records[r].article_id \in DOMAIN store}

\* the html a restore writes back: the last record read for the article wins
RestoredHtml(ids, id) ==
    LET last == Max({r \in Restorable(ids) : records[r].article_id = id})
    IN  html_lookup(files[records[last].archive_path])[id]

Restore(ids) ==
    /\ \E r \in DOMAIN records :
          records[r].article_id \in ids /\ records[r].status = "ARCHIVED"
    /\ records' = [r \in DOMAIN records |->
                      IF r \in Restorable(ids)
                      THEN [records[r] EXCEPT !.status = "ACTIVE"] ELSE records[r]]
    /\ store' = [id \in DOMAIN store |->
                    IF \E r \in Restorable(ids) : records[r].article_id = id
                    THEN [store[id] EXCEPT !.raw_html = RestoredHtml(ids, id)]
                    ELSE store[id]]
    /\ UNCHANGED <<files, manifest, acalls, aresult>>

\* an article crawl commits a new row, with or without raw_html
CrawlCommit(source, html) ==
    /\ Len(store) < MaxArticles
    /\ html \in {"", HtmlOf[Len(store) + 1]}
    /\ store' = Append(store, ArchArticle(source, "today", html))
    /\ UNCHANGED <<records, files, manifest, acalls, aresult>>

\* one article, or every article (the endpoint restores a whole source)
RestoreCalls == {{id} : id \in 1..MaxArticles} \cup {1..MaxArticles}

ArchiveNext ==
    \/ DailyArchive /\ UNCHANGED <<crawlVars, pipeVars, svcVars>>
    \/ \E s \in Sources, f \in ArchFilters \ {"target"} :
          ManualArchive(s, f) /\ UNCHANGED <<crawlVars, pipeVars, svcVars>>
    \/ \E c \in ArchCallers : ArchiveQuery(c) /\ UNCHANGED <<crawlVars, pipeVars, svcVars>>
    \/ \E c \in ArchCallers : ArchiveWriteBatch(c) /\ UNCHANGED <<crawlVars, pipeVars, svcVars>>
    \/ \E c \in ArchCallers : ArchiveCommit(c) /\ UNCHANGED <<crawlVars, pipeVars, svcVars>>
    \/ \E c \in ArchCallers : ArchiveFail(c) /\ UNCHANGED <<crawlVars, pipeVars, svcVars>>
    \/ \E ids \in RestoreCalls : Restore(ids) /\ UNCHANGED <<crawlVars, pipeVars, svcVars>>
    \/ \E html \in {""} \cup Range(HtmlOf) :
          CrawlCommit("X", html) /\ UNCHANGED <<crawlVars, pipeVars, svcVars>>

ArchiveSpec == ArchiveInit /\ [][ArchiveNext]_vars

\* ================================================================ claims
Terminal == {"COMPLETED", "FAILED"}

C2_ExclusiveLease ==
    [][\A t \in ArticleTicks :
          TickLease(t) =>
             \A k \in DOMAIN aticks[t].sel :
                /\ pending[aticks[t].sel[k]].status = "PENDING"
                /\ pending'[aticks[t].sel[k]].status = "PROCESSING"]_vars

\* C3: a leased row is processed at most once: while the tick that leased
\* it is still crawling, the row stays PROCESSING (neither the stale reset
\* nor a run-now tick takes it), and no URL gets two Articles
C3_AtMostOnce ==
    [][/\ \A t \in ArticleTicks :
            (aticks[t].pc = "crawl" /\ aticks'[t].pc = "crawl") =>
                \A k \in DOMAIN aticks[t].sel :
                    pending[aticks[t].sel[k]].status = "PROCESSING"
                        => pending'[aticks[t].sel[k]].status = "PROCESSING"
       /\ \A i, j \in DOMAIN articles' :
            i # j => articles'[i].url # articles'[j].url]_vars

C5_Idempotent ==
    [][/\ \A i \in DOMAIN pending' \ DOMAIN pending :
            compute_url_hash(pending'[i].url)
                \notin PendingHashes(pending) \cup ArticleHashes(articles)
       /\ \A t \in ListTicks :
            (lticks[t].pc # "done" /\ lticks'[t].pc = "done" /\ ~lticks'[t].raised) =>
                /\ lticks'[t].added = Len(pending') - Len(pending)
                /\ lticks'[t].added =
                      Cardinality({u \in Range(lticks'[t].urls) :
                          compute_url_hash(u) \notin
                              PendingHashes(pending) \cup ArticleHashes(articles)})
                /\ AddUrlsRows(lticks'[t].urls, lticks'[t].source,
                               pending', articles', 0) = <<>>]_vars

\* C5 witness: a call whose input repeats a URL has returned a count
C5_RepeatedInput ==
    \E t \in ListTicks :
        /\ lticks[t].pc = "done"
        /\ ~lticks[t].raised
        /\ lticks[t].added >= 1
        /\ Len(lticks[t].urls) > Cardinality(Range(lticks[t].urls))

\* C6: the SELECT of a lease returns only PENDING rows of the requested
\* source, oldest discovered_at first, leaving out no older PENDING row of
\* that source; limit > 0 caps the number of rows, limit = 0 returns all
C6_LeaseSelection ==
    [][\A t \in ArticleTicks :
          (aticks[t].pc = "idle" /\ aticks'[t].pc = "update") =>
             LET sel == aticks'[t].sel
                 lim == env.batch_size[aticks'[t].source]
                 cand == {i \in DOMAIN pending' :
                            /\ pending'[i].source = aticks'[t].source
                            /\ pending'[i].status = "PENDING"}
             IN /\ Range(sel) \subseteq cand
                /\ \A k, m \in DOMAIN sel :
                      k < m => /\ sel[k] # sel[m]
                               /\ pending'[sel[k]].discovered_at
                                     <= pending'[sel[m]].discovered_at
                /\ \A i \in cand \ Range(sel) : \A k \in DOMAIN sel :
                      pending'[sel[k]].discovered_at <= pending'[i].discovered_at
                /\ lim > 0 => Len(sel) = Min(lim, Cardinality(cand))
                /\ lim = 0 => Range(sel) = cand]_vars

\* C6 witness: a lease with limit 1 has selected one row and left a PENDING
\* row of its source behind, while a PENDING row of another source exists
C6_Capped ==
    \E t \in ArticleTicks :
        /\ aticks[t].pc = "update"
        /\ env.batch_size[aticks[t].source] = 1
        /\ Len(aticks[t].sel) = 1
        /\ \E i \in DOMAIN pending :
              /\ i \notin Range(aticks[t].sel)
              /\ pending[i].status = "PENDING"
              /\ pending[i].source = aticks[t].source
        /\ \E j \in DOMAIN pending :
              /\ pending[j].status = "PENDING"
              /\ pending[j].source # aticks[t].source

\* C7: mark_failed increments retry_count by exactly 1, then sets FAILED
\* with processed_at set if retry_count >= max_retries, otherwise PENDING
\* with processed_at null
C7_MarkFailed ==
    [][\A t \in ArticleTicks :
          TickMarkFailed(t) =>
             LET id == Head(aticks[t].fails)
             IN /\ pending'[id].retry_count = pending[id].retry_count + 1
                /\ IF pending'[id].retry_count >= pending'[id].max_retries
                   THEN pending'[id].status = "FAILED" /\ pending'[id].processed_at
                   ELSE pending'[id].status = "PENDING" /\ ~pending'[id].processed_at]_vars

\* C8: in every reachable state every row has retry_count <= max_retries
C8_RetryBound ==
    \A i \in DOMAIN pending : pending[i].retry_count <= pending[i].max_retries

\* C9: in every reachable state processed_at is set exactly when the status
\* is COMPLETED or FAILED
C9_ProcessedAt ==
    \A i \in DOMAIN pending :
        pending[i].processed_at <=> pending[i].status \in Terminal

\* C10: under fair scheduling every enqueued URL eventually reaches
\* COMPLETED or FAILED, also when ticks end by a timeout and the lease is
\* reclaimed
C10_Terminates ==
    \A id \in URLs :
        (id \in DOMAIN pending)
            ~> (id \in DOMAIN pending /\ pending[id].status \in Terminal)

C12_CrashRecovery ==
    [][ExecRestart =>
          /\ \A n \in CrawlerNames :
                /\ configs'[n].last_run_status # "running"
                /\ configs'[n] =
                      IF configs[n].last_run_status = "running"
                      THEN [configs[n] EXCEPT !.last_run_status = "idle"]
                      ELSE configs[n]
          /\ DOMAIN pending' = DOMAIN pending
          /\ \A i \in DOMAIN pending :
                /\ pending'[i].status # "PROCESSING"
                /\ pending'[i].retry_count = pending[i].retry_count
                /\ pending'[i] =
                      IF pending[i].status = "PROCESSING"
                      THEN [pending[i] EXCEPT !.status = "PENDING", !.age = 0]
                      ELSE pending[i]
          /\ articles' = articles
          /\ \A t \in ListTicks : lticks'[t].pc = "idle"
          /\ \A t \in ArticleTicks : aticks'[t].pc = "idle"]_vars

\* C12 witness: the process has been restarted over an article crawler that
\* had run before (a row carries a retry from it, so its config had left
\* IDLE): the config is IDLE again, the row is PENDING, the list crawler's
\* config kept its SUCCESS
C12_Recovered ==
    /\ \A t \in ArticleTicks : aticks[t].pc = "idle"
    /\ \A t \in ListTicks : lticks[t].pc = "idle"
    /\ \E i \in DOMAIN pending :
          /\ pending[i].retry_count >= 1
          /\ pending[i].status = "PENDING"
          /\ configs[<<"article", pending[i].source>>].last_run_status = "idle"
          /\ configs[<<"list", pending[i].source>>].last_run_status = "success"

\* C13: for one crawler name at most one tick runs at a time, whatever the
\* interval firings and run-now requests
C13_OneTickPerName ==
    \A n \in CrawlerNames : Cardinality(Instances(n[1], n[2])) <= 1

\* C14: a tick sets last_run_status RUNNING when it starts and, however it
\* ends (success, failure result, timeout, or a failing commit), leaves
\* last_run_status SUCCESS or FAILED, never RUNNING; a timeout leaves
\* FAILED with the timeout message
C14_TickStatus ==
    [][/\ \A t \in ListTicks :
            (lticks[t].pc = "idle" /\ lticks'[t].pc # "idle") =>
                configs'[<<"list", lticks'[t].source>>].last_run_status = "running"
       /\ \A t \in ArticleTicks :
            (aticks[t].pc = "idle" /\ aticks'[t].pc # "idle") =>
                configs'[<<"article", aticks'[t].source>>].last_run_status = "running"
       /\ ~ExecRestart =>
            /\ \A t \in ListTicks :
                  (lticks[t].pc # "idle" /\ lticks'[t].pc = "idle") =>
                      configs'[<<"list", lticks[t].source>>].last_run_status
                          \in {"success", "failed"}
            /\ \A t \in ArticleTicks :
                  (aticks[t].pc # "idle" /\ aticks'[t].pc = "idle") =>
                      configs'[<<"article", aticks[t].source>>].last_run_status
                          \in {"success", "failed"}
       /\ \A t \in ArticleTicks :
            ExecTickTimeout(t) =>
                configs'[<<"article", aticks[t].source>>] =
                    [last_run_status |-> "failed", error_log |-> "timeout"]]_vars

\* ------------------------------------------------------- archive claims
RecordsOf(id) == {r \in DOMAIN records : records[r].article_id = id}

LoadedIds(call) == {call.loaded[k].id : k \in DOMAIN call.loaded}

\* C15: archive then restore is a round trip. A restore called with the id
\* of an archived article puts the article's original raw_html back and
\* leaves its archive record ACTIVE, and no committed state has an ACTIVE
\* record for an article whose raw_html is empty.
C15_RoundTrip ==
    /\ [][\A ids \in RestoreCalls : Restore(ids) =>
            \A id \in ids \cap ArchivedIds :
                /\ store'[id].raw_html = HtmlOf[id]
                /\ \A r \in RecordsOf(id) : records'[r].status = "ACTIVE"]_vars
    /\ [](\A r \in DOMAIN records :
            records[r].status = "ACTIVE" => store[records[r].article_id].raw_html # "")

\* C16: archive_source is idempotent. What a run has archived is not
\* selected again, a run that selects nothing returns 0 and leaves the
\* records, the batch files and the manifest as they are, and a run over N
\* articles writes ceil(N / batch size) consecutively numbered batch files,
\* one manifest entry for each.
C16_Idempotent ==
    [][\A c \in ArchCallers :
        LET call == acalls[c]
            source == CurrentSource(call)
        IN  /\ (ArchiveQuery(c) /\ Eligible(source, call.filter) = {}) =>
                  /\ UNCHANGED <<store, records, files, manifest>>
                  /\ aresult'[c] = "nothing"
            /\ ArchiveWriteBatch(c) =>
                  Len(manifest'[source]) = Len(manifest[source]) + 1
            /\ ArchiveCommit(c) =>
                  /\ \A s \in Sources, f \in ArchFilters :
                        (s = source /\ f = call.filter) =>
                            Eligible(s, f)' \cap LoadedIds(call) = {}
                  /\ call.i = NumBatches(Len(call.loaded))
                  /\ \A k \in 0..(call.i - 1) :
                        /\ <<source, call.next_batch + k>> \in DOMAIN files
                        /\ \E e \in DOMAIN manifest[source] :
                              /\ manifest[source][e].filename = call.next_batch + k
                              /\ Range(manifest[source][e].article_ids) =
                                    {call.loaded[j].id : j \in
                                        {x \in DOMAIN call.loaded :
                                            (x - 1) \div ArchiveBatchSize = k}}]_vars

\* a run has archived yesterday's articles and the next cron run, with
\* nothing new to archive, has returned 0
C16_SecondRunEmpty ==
    /\ aresult["cron"] = "nothing"
    /\ \A c \in ArchCallers : acalls[c].phase = "idle"
    /\ files # <<>>
    /\ \E id \in DOMAIN store : store[id].day = "yesterday"
    /\ \A id \in DOMAIN store :
          store[id].day = "yesterday" => id \in ArchivedIds /\ store[id].raw_html = ""

\* C17: the archive is append-only. In every interleaving of archive runs
\* each batch is written to a file name that did not exist before.
C17_AppendOnly ==
    [][\A c \in ArchCallers :
          ArchiveWriteBatch(c) => BatchPath(acalls[c]) \notin DOMAIN files]_vars

\* C18: archive_source commits batch by batch. When a run fails on batch k
\* the articles of its batches 1..k-1 are finalized (record ARCHIVED,
\* raw_html empty), and no batch file of the source lists an article that
\* still has its raw_html and no archive record.
C18_PerBatchCommit ==
    [][\A c \in ArchCallers : ArchiveFail(c) =>
          /\ \A id \in DirtyIds(acalls[c].dirty) :
                store'[id].raw_html = "" /\ id \in ArchivedIds'
          /\ \A p \in DOMAIN files : \A k \in DOMAIN files[p].articles :
                LET id == files[p].articles[k].article_id
                IN  ~(store'[id].raw_html # "" /\ RecordsOf(id)' = {})]_vars

\* C19: in every committed state an article whose raw_html is empty has
\* exactly one archive record with status ARCHIVED, or no archive record.
C19_OneArchivedRecord ==
    \A id \in DOMAIN store :
        store[id].raw_html = "" =>
            \/ Cardinality({r \in RecordsOf(id) : records[r].status = "ARCHIVED"}) = 1
            \/ RecordsOf(id) = {}

\* ==================================================== pipeline orchestrator
PipePageSize == 1
MaxPipeArticles == 2
MaxFilterRows == 4

PipelineStages == <<"FETCH", "RULE_FILTER", "LLM_ANALYSIS", "STORE">>

\* position of a stage in the enumeration; no stage is 0
StageRank(stage) ==
    IF stage = "" THEN 0
    ELSE CHOOSE k \in DOMAIN PipelineStages : PipelineStages[k] = stage

UntilStages == {""} \cup Range(PipelineStages)

\* the store's status update: the stage is written only when one is given
update_pipeline_run_status(run, status, current_stage) ==
    [run EXCEPT !.status = status,
                !.current_stage = IF current_stage # "" THEN current_stage ELSE @]

\* the decisions whose group a recount assigns to rule_passed_count
PassedDecisions == {"KEEP", "FORCE_INCLUDE"}

\* the statistics are recounted from the rows of the run.  The RULE_FILTER
\* rows are counted per decision (GROUP BY, in no stated order) and the loop
\* over the groups assigns, never adds: rule_passed_count is the count of the
\* KEEP group or of the FORCE_INCLUDE group, whichever the query returns
\* later (last_group) when both exist.  Then the FORCE_INCLUDE rows and
\* the analysis rows.
update_pipeline_run_stats(run, last_group) ==
    LET filtered == run.filter_rows - run.kept_rows - run.forced_rows
        passed == IF run.kept_rows = 0 THEN run.forced_rows
                  ELSE IF run.forced_rows = 0 THEN run.kept_rows
                  ELSE IF last_group = "KEEP" THEN run.kept_rows
                  ELSE run.forced_rows
    IN  [run EXCEPT !.rule_filtered_count = filtered,
                    !.rule_passed_count = passed,
                    !.force_included_count = run.forced_rows,
                    !.analyzed_count = run.analysis_rows]

\* the rows of one stage are deleted; run_pipeline writes RULE_FILTER rows only
delete_filter_results_from_stage(run, stage) ==
    IF stage = "RULE_FILTER"
    THEN [run EXCEPT !.filter_rows = 0, !.kept_rows = 0, !.forced_rows = 0,
                     !.article_rows = <<>>]
    ELSE run

delete_analysis_results(run) == [run EXCEPT !.analysis_rows = 0]

\* mutant: the filter loop may be left before its last page
FilterLoopOverAtOnce(exec) == TRUE

\* the generator of pages is exhausted
FilterLoopOver(exec) == exec.processed >= exec.matching

PipeInit ==
    /\ env = SingleWorker
    /\ pending = <<>>
    /\ articles = <<>>
    /\ lticks = [t \in ListTicks |-> IdleList]
    /\ aticks = [t \in ArticleTicks |-> IdleArticle]
    /\ ExecIdle
    /\ SvcIdle
    /\ ArchiveIdle
    /\ PipeIdle

\* run_pipeline is called: status RUNNING, stage FETCH
PipeStart(until_stage, matching) ==
    /\ pexec.pc = "idle"
    /\ prun.filter_rows + matching <= MaxFilterRows
    /\ prun' = update_pipeline_run_status(prun, "RUNNING", "FETCH")
    /\ pexec' = [IdleExec EXCEPT !.pc = "fetch", !.until_stage = until_stage,
                                 !.matching = matching, !.log = <<"FETCH">>]

\* stage FETCH: the count is stored; paused here, or on to RULE_FILTER
PipeCount ==
    /\ pexec.pc = "fetch"
    /\ IF pexec.until_stage = "FETCH"
       THEN /\ prun' = update_pipeline_run_status(
                          [prun EXCEPT !.total_articles = pexec.matching], "PAUSED", "")
            /\ pexec' = [pexec EXCEPT !.pc = "idle", !.log = Append(@, "count")]
       ELSE /\ prun' = update_pipeline_run_status(
                          [prun EXCEPT !.total_articles = pexec.matching],
                          "RUNNING", "RULE_FILTER")
            /\ pexec' = [pexec EXCEPT !.pc = "filter",
                                      !.log = @ \o <<"count", "RULE_FILTER">>]

\* one page of the filter loop, the articles at offsets processed + 1 ..
\* processed + page of the window: a RULE_FILTER row is added for each
\* (article_rows lists the article of each row of the run), `kept` of them
\* KEEP and `forced` of them FORCE_INCLUDE, and these are collected
PipeFilterPage(kept, forced) ==
    LET page == Min(PipePageSize, pexec.matching - pexec.processed)
    IN  /\ pexec.pc = "filter"
        /\ pexec.processed < pexec.matching
        /\ kept + forced <= page
        /\ prun' = [prun EXCEPT !.filter_rows = @ + page, !.kept_rows = @ + kept,
                                !.forced_rows = @ + forced,
                                !.article_rows =
                                    @ \o [k \in 1..page |-> pexec.processed + k]]
        /\ pexec' = [pexec EXCEPT !.processed = @ + page, !.passed = @ + kept + forced,
                                  !.log = Append(@, "rows")]

\* the loop is over: statistics; paused here, on to LLM_ANALYSIS when
\* articles passed, or straight to the check before STORE
PipeFilterDone(last_group) ==
    /\ pexec.pc = "filter"
    /\ FilterLoopOver(pexec)
    /\ IF pexec.until_stage = "RULE_FILTER"
       THEN /\ prun' = update_pipeline_run_status(
                          update_pipeline_run_stats(prun, last_group), "PAUSED", "")
            /\ pexec' = [pexec EXCEPT !.pc = "idle", !.log = Append(@, "stats")]
       ELSE IF pexec.passed > 0
       THEN /\ prun' = update_pipeline_run_status(
                          update_pipeline_run_stats(prun, last_group),
                          "RUNNING", "LLM_ANALYSIS")
            /\ pexec' = [pexec EXCEPT !.pc = "analysis",
                                      !.log = @ \o <<"stats", "LLM_ANALYSIS">>]
       ELSE /\ prun' = update_pipeline_run_stats(prun, last_group)
            /\ pexec' = [pexec EXCEPT !.pc = "analysed", !.log = Append(@, "stats")]

\* analyze_articles: a new batch is submitted and its id persisted, or the
\* run's batch is resumed
PipeSubmit ==
    /\ pexec.pc = "analysis"
    /\ prun' = [prun EXCEPT !.batch_id = IF @ = 0 THEN 1 ELSE @]
    /\ pexec' = [pexec EXCEPT !.pc = "polling",
                              !.log = IF prun.batch_id # 0 THEN @ ELSE Append(@, "submit")]

\* polling ends with the responses and analyzed_count is the number of
\* successes, or with TimeoutError: the run is paused
PipePolled(done, success_count) ==
    /\ pexec.pc = "polling"
    /\ IF done
       THEN /\ prun' = [prun EXCEPT !.analyzed_count = success_count]
            /\ pexec' = [pexec EXCEPT !.pc = "analysed", !.log = Append(@, "polled")]
       ELSE /\ prun' = update_pipeline_run_status(prun, "PAUSED", "")
            /\ pexec' = [pexec EXCEPT !.pc = "idle"]

\* after the analysis: paused here, or on to STORE
PipeEnterStore ==
    /\ pexec.pc = "analysed"
    /\ IF pexec.until_stage = "LLM_ANALYSIS"
       THEN /\ prun' = update_pipeline_run_status(prun, "PAUSED", "")
            /\ pexec' = [pexec EXCEPT !.pc = "idle"]
       ELSE /\ prun' = update_pipeline_run_status(prun, "RUNNING", "STORE")
            /\ pexec' = [pexec EXCEPT !.pc = "store", !.log = Append(@, "STORE")]

\* stage STORE: statistics, then COMPLETED
PipeFinalize(last_group) ==
    /\ pexec.pc = "store"
    /\ prun' = update_pipeline_run_status(
                  update_pipeline_run_stats(prun, last_group), "COMPLETED", "")
    /\ pexec' = [pexec EXCEPT !.pc = "idle", !.log = Append(@, "finalize")]

\* any other exception: FAILED, and the exception is raised again
PipeRaise ==
    /\ pexec.pc # "idle"
    /\ prun' = update_pipeline_run_status(prun, "FAILED", "")
    /\ pexec' = [pexec EXCEPT !.pc = "idle"]

\* the stages reset_pipeline_run walks through; FETCH is not one of them
stage_order == <<"RULE_FILTER", "LLM_ANALYSIS", "STORE">>

\* from_stage and the stages after it in stage_order; empty when from_stage
\* is not in stage_order
stages_to_delete(from_stage) ==
    {stage_order[k] : k \in {k \in DOMAIN stage_order :
                                \E j \in 1..k : stage_order[j] = from_stage}}

\* reset_pipeline_run of a run that is not being executed: the rows of the
\* stages to delete go, their counters are zeroed, the run is PENDING with no
\* stage; one commit
ResetPipelineRun(from_stage) ==
    LET stages == stages_to_delete(from_stage)
        rows == IF "RULE_FILTER" \in stages
                THEN delete_filter_results_from_stage(prun, "RULE_FILTER")
                ELSE prun
        results == IF "LLM_ANALYSIS" \in stages THEN delete_analysis_results(rows)
                   ELSE rows
    IN  /\ pexec.pc = "idle"
        /\ prun' = [results EXCEPT
                       !.rule_filtered_count = IF "RULE_FILTER" \in stages THEN 0 ELSE @,
                       !.rule_passed_count = IF "RULE_FILTER" \in stages THEN 0 ELSE @,
                       !.analyzed_count = IF "LLM_ANALYSIS" \in stages THEN 0 ELSE @,
                       !.status = "PENDING",
                       !.current_stage = ""]
        /\ pexec' = pexec

PipeNext ==
    \/ \E until_stage \in UntilStages, matching \in 0..MaxPipeArticles :
          PipeStart(until_stage, matching) /\ UNCHANGED <<crawlVars, archVars, svcVars, filterVars, trackVars>>
    \/ PipeCount /\ UNCHANGED <<crawlVars, archVars, svcVars, filterVars, trackVars>>
    \/ \E kept \in 0..PipePageSize, forced \in 0..PipePageSize :
          PipeFilterPage(kept, forced) /\ UNCHANGED <<crawlVars, archVars, svcVars, filterVars, trackVars>>
    \/ \E last_group \in PassedDecisions :
          PipeFilterDone(last_group) /\ UNCHANGED <<crawlVars, archVars, svcVars, filterVars, trackVars>>
    \/ PipeSubmit /\ UNCHANGED <<crawlVars, archVars, svcVars, filterVars, trackVars>>
    \/ \E done \in BOOLEAN, success_count \in 0..MaxPipeArticles :
          /\ success_count <= pexec.passed
          /\ done \/ success_count = 0
          /\ PipePolled(done, success_count)
          /\ UNCHANGED <<crawlVars, archVars, svcVars, filterVars, trackVars>>
    \/ PipeEnterStore /\ UNCHANGED <<crawlVars, archVars, svcVars, filterVars, trackVars>>
    \/ \E last_group \in PassedDecisions :
          PipeFinalize(last_group) /\ UNCHANGED <<crawlVars, archVars, svcVars, filterVars, trackVars>>
    \/ PipeRaise /\ UNCHANGED <<crawlVars, archVars, svcVars, filterVars, trackVars>>
    \/ \E from_stage \in Range(PipelineStages) :
          ResetPipelineRun(from_stage) /\ UNCHANGED <<crawlVars, archVars, svcVars, filterVars, trackVars>>

PipeSpec == PipeInit /\ [][PipeNext]_vars

\* ------------------------------------------------------- pipeline claims
\* the stage an event of the execution belongs to
EventStage(event) ==
    CASE event \in {"FETCH", "count"} -> "FETCH"
      [] event \in {"RULE_FILTER", "rows", "stats"} -> "RULE_FILTER"
      [] event \in {"LLM_ANALYSIS", "submit", "polled"} -> "LLM_ANALYSIS"
      [] OTHER -> "STORE"

Before(log, first, j) == \E i \in 1..(j - 1) : log[i] = first

\* stages are entered once and in order, each after the work of the stage
\* before it, and every piece of work lies inside its own stage
LogOrdered(log) ==
    /\ \A i, j \in DOMAIN log :
          i < j => /\ StageRank(EventStage(log[i])) <= StageRank(EventStage(log[j]))
                   /\ log[j] \in Range(PipelineStages) => log[i] # log[j]
    /\ \A j \in DOMAIN log :
          /\ log[j] \notin Range(PipelineStages) => Before(log, EventStage(log[j]), j)
          /\ log[j] = "RULE_FILTER" => Before(log, "count", j)
          /\ log[j] = "LLM_ANALYSIS" => Before(log, "stats", j)
          /\ log[j] = "STORE" =>
                /\ Before(log, "stats", j)
                /\ Before(log, "LLM_ANALYSIS", j) => Before(log, "polled", j)

\* C20: within one execution of run_pipeline current_stage only moves
\* forward through FETCH, RULE_FILTER, LLM_ANALYSIS, STORE: a stage starts
\* after the one before it has finished, no stage is entered twice, and no
\* filter rows, batch submission or finalization come before an earlier
\* stage is complete.
C20_StageOrder ==
    /\ [](LogOrdered(pexec.log))
    /\ [](pexec.pc # "idle" => prun.current_stage = EventStage(pexec.log[Len(pexec.log)]))
    /\ [][pexec.pc # "idle" =>
             /\ StageRank(prun'.current_stage) >= StageRank(prun.current_stage)
             /\ StageRank(prun'.current_stage) > StageRank("RULE_FILTER") =>
                    /\ pexec'.processed = pexec'.matching
                    /\ prun'.total_articles = pexec'.matching]_vars

\* an execution has gone through all four stages and completed the run
C20_AllStages ==
    /\ prun.status = "COMPLETED"
    /\ pexec.pc = "idle"
    /\ Range(PipelineStages) \cup {"rows", "submit", "polled", "finalize"} \subseteq Range(pexec.log)

\* C21: the status of a run changes only along PENDING->RUNNING,
\* RUNNING->PAUSED, PAUSED->RUNNING, RUNNING->COMPLETED, RUNNING->FAILED, or
\* back to PENDING by reset_pipeline_run; run_pipeline on a COMPLETED or
\* FAILED run does not make it RUNNING again.
C21_StatusTransitions ==
    [][prun'.status # prun.status =>
          \/ <<prun.status, prun'.status>> \in
                {<<"PENDING", "RUNNING">>, <<"RUNNING", "PAUSED">>,
                 <<"PAUSED", "RUNNING">>, <<"RUNNING", "COMPLETED">>,
                 <<"RUNNING", "FAILED">>}
          \/ /\ prun'.status = "PENDING"
             /\ \E from_stage \in Range(PipelineStages) : ResetPipelineRun(from_stage)]_vars

\* C22: current_stage is empty while the run is PENDING and empty again once
\* the run is COMPLETED or FAILED.
C22_StageEmptyOutsideExecution ==
    prun.status \in {"PENDING", "COMPLETED", "FAILED"} => prun.current_stage = ""

\* C30: after reset_pipeline_run(run, from_stage), for each of the four
\* stages as from_stage: the run has no filter row of from_stage or a later
\* stage, no analysis row when LLM_ANALYSIS is from_stage or later, the
\* counters of the reset stages are 0, the status is PENDING, and the filter
\* rows of earlier stages are as before.
C30_ResetClears ==
    [][\A from_stage \in Range(PipelineStages) :
          ResetPipelineRun(from_stage) =>
             /\ prun'.status = "PENDING"
             /\ StageRank(from_stage) <= StageRank("RULE_FILTER") =>
                    /\ prun'.filter_rows = 0
                    /\ prun'.rule_filtered_count = 0
                    /\ prun'.rule_passed_count = 0
             /\ StageRank(from_stage) <= StageRank("LLM_ANALYSIS") =>
                    /\ prun'.analysis_rows = 0
                    /\ prun'.analyzed_count = 0
             /\ StageRank(from_stage) > StageRank("RULE_FILTER") =>
                    /\ prun'.filter_rows = prun.filter_rows
                    /\ prun'.kept_rows = prun.kept_rows]_vars

\* ============================================================= rule filter
MaxTitleLen == 2
MaxFilterArticles == 2

\* the characters of a text: a lower-case letter, the same letter in upper
\* case, and another letter
Chars == {"a", "A", "b"}

Texts == {<<>>} \cup SeqsUpTo(Chars, MaxTitleLen)

ArticleIds == 1..MaxFilterArticles

FilterArticles ==
    [id : ArticleIds, title : Texts, category : {<<>>, <<"b">>}]

\* the pages handed to the filter: articles with distinct ids
FilterBatches ==
    {arts \in SeqsUpTo(FilterArticles, MaxFilterArticles) :
        \A i, j \in DOMAIN arts : i # j => arts[i].id # arts[j].id}

\* one rule of each type, shaped like the default rules
KeywordRule ==
    [name |-> "keyword_rule", rule_type |-> "KEYWORD", total_filtered_count |-> 0,
     config |-> [keywords |-> <<<<"b">>>>, match_fields |-> <<"title", "category">>]]

PatternRule ==
    [name |-> "pattern_rule", rule_type |-> "PATTERN", total_filtered_count |-> 0,
     config |-> [patterns |-> <<<<"a">>>>, match_fields |-> <<"title">>,
                 exclude_keywords |-> <<<<"A">>>>]]

CategoryRule ==
    [name |-> "category_rule", rule_type |-> "CATEGORY", total_filtered_count |-> 0,
     config |-> [categories |-> {<<"b">>}]]

\* the active rules of a deployment: any of the three, in any order
RuleLists ==
    {<<>>} \cup
    {rules \in SeqsUpTo({KeywordRule, PatternRule, CategoryRule}, 3) :
        \A i, j \in DOMAIN rules : i # j => rules[i] # rules[j]}

\* re.IGNORECASE
Fold(text) == [i \in DOMAIN text |-> IF text[i] = "A" THEN "a" ELSE text[i]]

\* keyword in field_value
Contains(text, keyword) ==
    \E i \in 0..(Len(text) - Len(keyword)) :
        SubSeq(text, i + 1, i + Len(keyword)) = keyword

\* re.search(pattern, field_value, re.IGNORECASE) for a literal pattern
Search(pattern, text) == Contains(Fold(text), Fold(pattern))

_get_field_value(article, field) ==
    CASE field = "title" -> article.title
      [] field = "category" -> article.category
      [] OTHER -> <<>>

_apply_keyword_rule(article, config) ==
    \E f \in DOMAIN config.match_fields, k \in DOMAIN config.keywords :
        Contains(_get_field_value(article, config.match_fields[f]), config.keywords[k])

\* (mutant of _apply_pattern_rule) the exclude keywords are not looked at
_apply_pattern_rule_no_exclude(article, config) ==
    \E f \in DOMAIN config.match_fields, k \in DOMAIN config.patterns :
        Search(config.patterns[k], _get_field_value(article, config.match_fields[f]))

\* an exclude keyword is a substring of a selected field
ExcludeKeywordFound(article, config) ==
    \E f \in DOMAIN config.match_fields, k \in DOMAIN config.exclude_keywords :
        Contains(_get_field_value(article, config.match_fields[f]),
                 config.exclude_keywords[k])

\* the exclude keywords come first: one hit and the rule does not match
_apply_pattern_rule(article, config) ==
    IF ExcludeKeywordFound(article, config)
    THEN FALSE
    ELSE \E f \in DOMAIN config.match_fields, k \in DOMAIN config.patterns :
            Search(config.patterns[k], _get_field_value(article, config.match_fields[f]))

_apply_category_rule(article, config) ==
    article.category # <<>> /\ article.category \in config.categories

_rule_handlers(rule, article) ==
    CASE rule.rule_type = "KEYWORD" -> _apply_keyword_rule(article, rule.config)
      [] rule.rule_type = "PATTERN" -> _apply_pattern_rule(article, rule.config)
      [] rule.rule_type = "CATEGORY" -> _apply_category_rule(article, rule.config)
      [] OTHER -> FALSE

\* (mutant of ForceIncluded) the force-include table is not consulted
ForceIncludedNever(article, force_include_ids) == FALSE

\* article.id in force_include_ids
ForceIncluded(article, force_include_ids) == article.id \in force_include_ids

\* the first active rule whose handler matches, 0 when none does
FirstMatch(article, rules) ==
    LET hits == {k \in DOMAIN rules : _rule_handlers(rules[k], article)}
    IN  IF hits = {} THEN 0 ELSE CHOOSE k \in hits : \A h \in hits : k <= h

\* filter_article: force-include first, then the rules in order; counted is
\* the rule whose total_filtered_count is incremented, 0 for none
filter_article(article, rules, force_include_ids) ==
    IF ForceIncluded(article, force_include_ids)
    THEN [article_id |-> article.id, decision |-> "FORCE_INCLUDE",
          rule_name |-> "force_include", counted |-> 0]
    ELSE IF FirstMatch(article, rules) # 0
    THEN [article_id |-> article.id, decision |-> "FILTER",
          rule_name |-> rules[FirstMatch(article, rules)].name,
          counted |-> FirstMatch(article, rules)]
    ELSE [article_id |-> article.id, decision |-> "KEEP", rule_name |-> "",
          counted |-> 0]

FilterInit ==
    /\ env = SingleWorker
    /\ pending = <<>>
    /\ articles = <<>>
    /\ lticks = [t \in ListTicks |-> IdleList]
    /\ aticks = [t \in ArticleTicks |-> IdleArticle]
    /\ ExecIdle
    /\ SvcIdle
    /\ ArchiveIdle
    /\ prun = NewPipelineRun
    /\ pexec = IdleExec
    /\ TrackIdle
    /\ frules \in RuleLists
    /\ fforce \in SUBSET ArticleIds
    /\ fout = NoBatch

\* filter_articles_batch on the first page: a filter row per article, the articles
\* that are kept or force-included are passed on, every FILTER decision is
\* counted on its rule
FilterArticlesBatch(arts) ==
    LET results == [i \in DOMAIN arts |-> filter_article(arts[i], frules, fforce)]
    IN  /\ fout = NoBatch
        /\ fout' = [articles |-> arts,
                    results |-> [i \in DOMAIN arts |->
                                   [article_id |-> results[i].article_id,
                                    stage |-> "RULE_FILTER",
                                    decision |-> results[i].decision,
                                    rule_name |-> results[i].rule_name]],
                    passed |-> SelectSeq(arts,
                                 LAMBDA a : filter_article(a, frules, fforce).decision
                                               \in {"KEEP", "FORCE_INCLUDE"})]
        /\ frules' = [k \in DOMAIN frules |->
                        [frules[k] EXCEPT !.total_filtered_count =
                            @ + Cardinality({i \in DOMAIN arts : results[i].counted = k})]]
        /\ fforce' = fforce

FilterNext ==
    \E arts \in FilterBatches :
        FilterArticlesBatch(arts) /\ UNCHANGED <<crawlVars, archVars, svcVars, prun, pexec, trackVars>>

FilterSpec == FilterInit /\ [][FilterNext]_vars

\* ------------------------------------------------------ rule filter claims
\* C28: an article whose id is force-included gets decision FORCE_INCLUDE
\* with rule_name "force_include" whatever the active rules are, it is among
\* the articles passed on, and no rule counts it: a page of force-included
\* articles leaves every total_filtered_count alone, and a rule's count is
\* the number of FILTER rows that name it.
C28_ForceIncludeFirst ==
    /\ [](\A i \in DOMAIN fout.articles :
             fout.articles[i].id \in fforce =>
                /\ fout.results[i].decision = "FORCE_INCLUDE"
                /\ fout.results[i].rule_name = "force_include"
                /\ fout.articles[i] \in Range(fout.passed))
    /\ [](\A k \in DOMAIN frules :
             frules[k].total_filtered_count =
                Cardinality({i \in DOMAIN fout.results :
                                /\ fout.results[i].decision = "FILTER"
                                /\ fout.results[i].rule_name = frules[k].name}))
    /\ [][(/\ FilterArticlesBatch(fout'.articles)
            /\ \A i \in DOMAIN fout'.articles : fout'.articles[i].id \in fforce)
              => frules' = frules]_vars

\* a force-included article that an active rule matches was passed on
C28_ForcedDespiteMatch ==
    \E i \in DOMAIN fout.articles :
        /\ fout.articles[i].id \in fforce
        /\ FirstMatch(fout.articles[i], frules) # 0
        /\ fout.results[i].decision = "FORCE_INCLUDE"
        /\ fout.articles[i] \in Range(fout.passed)

\* C29: when the exclude_keywords of an active PATTERN rule match an
\* article, the article's decision is KEEP, even if the patterns of that
\* rule match too.
C29_ExcludeKeeps ==
    \A i \in DOMAIN fout.articles, k \in DOMAIN frules :
        (/\ frules[k].rule_type = "PATTERN"
         /\ ExcludeKeywordFound(fout.articles[i], frules[k].config))
            => fout.results[i].decision = "KEEP"

\* C29 (amended): when the exclude_keywords of an active PATTERN rule match
\* an article, that rule does not match it, even if its patterns match too:
\* the article is never filtered under that rule's name, and it is kept when
\* it is not force-included and no other active rule matches it.
C29_ExcludedRuleDoesNotMatch ==
    \A i \in DOMAIN fout.articles, k \in DOMAIN frules :
        (/\ frules[k].rule_type = "PATTERN"
         /\ ExcludeKeywordFound(fout.articles[i], frules[k].config))
            => /\ fout.results[i].rule_name # frules[k].name
               /\ (/\ fout.articles[i].id \notin fforce
                   /\ \A h \in DOMAIN frules \ {k} :
                         ~_rule_handlers(frules[h], fout.articles[i]))
                      => fout.results[i].decision = "KEEP"

\* an article was kept because of an exclude keyword although a pattern of
\* the rule matches it
C29_KeptByExclude ==
    \E i \in DOMAIN fout.articles, k \in DOMAIN frules :
        /\ frules[k].rule_type = "PATTERN"
        /\ ExcludeKeywordFound(fout.articles[i], frules[k].config)
        /\ \E f \in DOMAIN frules[k].config.match_fields,
              p \in DOMAIN frules[k].config.patterns :
                Search(frules[k].config.patterns[p],
                       _get_field_value(fout.articles[i], frules[k].config.match_fields[f]))
        /\ fout.results[i].decision = "KEEP"

\* ============================================================ LLM analysis
MaxAnalysisArticles == 2
MaxBatches == 2
MaxTrackingRows == 3

AnalysisArticles == 1..MaxAnalysisArticles

\* what a response says about its article, what storing one article does
ResponseKinds == {"ok", "bad"}
StoreOutcomes == {"stored", "transient", "data"}

\* a batch the provider has accepted; tracked: its tracking rows were written
NewBatch(article_ids) ==
    [articles |-> article_ids, status |-> "in_progress", responses |-> <<>>,
     tracked |-> FALSE]

get_analyzed_article_ids(rows) ==
    {rows[i].article_id : i \in {j \in DOMAIN rows : rows[j].status = "SUCCESS"}}

get_failed_article_ids(rows) ==
    {rows[i].article_id : i \in {j \in DOMAIN rows : rows[j].status = "FAILED"}}

\* one PENDING row per article of the batch
_create_tracking_records(rows, article_ids, batch_id) ==
    LET ids == SetToSeq(article_ids)
    IN  rows \o [k \in DOMAIN ids |->
                    [article_id |-> ids[k], batch_id |-> batch_id,
                     status |-> "PENDING", result_json |-> 0]]

\* the row of the article in this status that was created last, 0 for none
LatestRow(rows, article_id, status) ==
    Max({i \in DOMAIN rows :
            rows[i].article_id = article_id /\ rows[i].status = status})

\* each response moves the latest PENDING row of its article to SUCCESS or
\* FAILED; a response whose article has no PENDING row is skipped
_update_tracking_from_responses(rows, responses) ==
    [i \in DOMAIN rows |->
        IF /\ rows[i].article_id \in DOMAIN responses
           /\ i = LatestRow(rows, rows[i].article_id, "PENDING")
        THEN [rows[i] EXCEPT !.status =
                 IF responses[rows[i].article_id] = "ok" THEN "SUCCESS" ELSE "FAILED"]
        ELSE rows[i]]

\* clear_tracking(failed_only=True)
clear_tracking(rows) == SelectSeq(rows, LAMBDA r : r.status # "FAILED")

\* what storing the k-th response does: an article that is not in
\* articles_map is a data failure without a store attempt
StoreOutcome(response_ids, articles_map, outcome, k) ==
    IF response_ids[k] \notin articles_map THEN "data" ELSE outcome[k]

\* store_batch: the failures, in the order of the responses
store_batch(response_ids, articles_map, outcome) ==
    LET failed == SelectSeq([k \in DOMAIN response_ids |-> k],
                     LAMBDA k : StoreOutcome(response_ids, articles_map, outcome, k)
                                   # "stored")
    IN  [n \in DOMAIN failed |->
            [article_id |-> response_ids[failed[n]],
             is_transient |->
                StoreOutcome(response_ids, articles_map, outcome, failed[n]) = "transient"]]

\* the articles store_batch has stored
Stored(response_ids, articles_map, outcome) ==
    {response_ids[k] : k \in {n \in DOMAIN response_ids :
        StoreOutcome(response_ids, articles_map, outcome, n) = "stored"}}

\* an article that is already in the result store is skipped before any
\* insert, so it cannot fail on its data
OutcomePossible(response_ids, outcome) ==
    \A k \in DOMAIN response_ids : response_ids[k] \in tsdb => outcome[k] # "data"

\* each failure goes to the latest SUCCESS row of its article: a transient
\* one makes it STORE_FAILED and saves the result, another one makes it FAILED
RECURSIVE _mark_storage_failures(_, _, _)
_mark_storage_failures(rows, failures, response_json_map) ==
    IF failures = <<>> THEN rows
    ELSE LET failure == Head(failures)
             i == LatestRow(rows, failure.article_id, "SUCCESS")
             marked ==
                IF i = 0 THEN rows
                ELSE IF failure.is_transient
                THEN [rows EXCEPT ![i].status = "STORE_FAILED",
                                  ![i].result_json =
                                      IF failure.article_id \in DOMAIN response_json_map
                                      THEN response_json_map[failure.article_id] ELSE 0]
                ELSE [rows EXCEPT ![i].status = "FAILED"]
         IN  _mark_storage_failures(marked, Tail(failures), response_json_map)

\* (mutant of AfterTimeout) a timeout is handled like any other exception
AfterTimeoutFailed(run) == update_pipeline_run_status(run, "FAILED", "")

\* except TimeoutError in run_pipeline: the run is paused
AfterTimeout(run) == update_pipeline_run_status(run, "PAUSED", "")

\* the rest of run_pipeline after the analysis: stage STORE, statistics,
\* COMPLETED
AfterAnalysis(run) ==
    update_pipeline_run_status(
        update_pipeline_run_stats(update_pipeline_run_status(run, "RUNNING", "STORE"),
                                  "KEEP"),
        "COMPLETED", "")

\* another run is created; it is the run followed from here on
CreatePipelineRun ==
    /\ lexec.pc = "idle"
    /\ prun # NewPipelineRun
    /\ prun' = NewPipelineRun
    /\ UNCHANGED <<tracking, batches, tsdb, lexec>>

\* run_pipeline reaches LLM_ANALYSIS with the articles that passed and calls
\* analyze_articles: nothing left to analyse, or the run's batch is resumed,
\* or a new batch is submitted
AnalysisStage(all_passed_articles) ==
    LET running == update_pipeline_run_status(prun, "RUNNING", "LLM_ANALYSIS")
        to_analyze == all_passed_articles \ get_analyzed_article_ids(tracking)
    IN  /\ lexec.pc = "idle"
        /\ all_passed_articles # {}
        /\ UNCHANGED <<tracking, tsdb>>
        /\ IF to_analyze = {}
           THEN /\ prun' = AfterAnalysis(running)
                /\ lexec' = [IdleAnalysis EXCEPT !.op = "analyze"]
                /\ batches' = batches
           ELSE IF prun.batch_id # 0
           THEN /\ prun' = running
                /\ lexec' = [IdleAnalysis EXCEPT !.op = "analyze", !.pc = "poll",
                                !.articles = to_analyze, !.batch = prun.batch_id,
                                !.resumed = TRUE]
                /\ batches' = batches
           ELSE /\ Len(batches) < MaxBatches
                /\ Len(tracking) + Cardinality(to_analyze) <= MaxTrackingRows
                /\ prun' = running
                /\ batches' = Append(batches, NewBatch(to_analyze))
                /\ lexec' = [IdleAnalysis EXCEPT !.op = "analyze", !.pc = "submitted",
                                !.articles = to_analyze, !.batch = Len(batches) + 1]

\* the batch id is persisted on the run
PersistBatchId ==
    /\ lexec.op = "analyze"
    /\ lexec.pc = "submitted"
    /\ prun' = [prun EXCEPT !.batch_id = lexec.batch]
    /\ lexec' = [lexec EXCEPT !.pc = "persisted"]
    /\ UNCHANGED <<tracking, batches, tsdb>>

\* the tracking rows of a submitted batch are written
CreateTracking ==
    /\ \/ lexec.op = "analyze" /\ lexec.pc = "persisted"
       \/ lexec.op = "retry_failed" /\ lexec.pc = "submitted"
    /\ tracking' = _create_tracking_records(tracking, lexec.articles, lexec.batch)
    /\ batches' = [batches EXCEPT ![lexec.batch].tracked = TRUE]
    /\ lexec' = [lexec EXCEPT !.pc = "poll"]
    /\ UNCHANGED <<prun, tsdb>>

\* _poll_batch sees the batch completed: the results are retrieved and the
\* tracking rows updated.  The output and error files hold a line for the
\* requests the provider answered, which need not be all of them.
PollDone(responses) ==
    /\ lexec.pc = "poll"
    /\ batches[lexec.batch].status \in {"in_progress", "completed"}
    /\ batches[lexec.batch].status = "completed" =>
          responses = batches[lexec.batch].responses
    /\ batches' = [batches EXCEPT ![lexec.batch].status = "completed",
                                  ![lexec.batch].responses = responses]
    /\ tracking' = _update_tracking_from_responses(tracking, responses)
    /\ lexec' = [lexec EXCEPT !.pc = "store"]
    /\ UNCHANGED <<prun, tsdb>>

\* max_wait is over: TimeoutError; run_pipeline pauses the run
PollTimeout ==
    /\ lexec.pc = "poll"
    /\ batches[lexec.batch].status = "in_progress"
    /\ prun' = IF lexec.op = "analyze" THEN AfterTimeout(prun) ELSE prun
    /\ lexec' = [IdleAnalysis EXCEPT !.op = lexec.op, !.raised = "TimeoutError"]
    /\ UNCHANGED <<tracking, batches, tsdb>>

\* the batch has failed or expired at the provider: RuntimeError;
\* run_pipeline fails the run
PollRaise ==
    /\ lexec.pc = "poll"
    /\ batches[lexec.batch].status \in {"in_progress", "expired"}
    /\ batches' = [batches EXCEPT ![lexec.batch].status = "expired"]
    /\ prun' = IF lexec.op = "analyze"
               THEN update_pipeline_run_status(prun, "FAILED", "") ELSE prun
    /\ lexec' = [IdleAnalysis EXCEPT !.op = lexec.op, !.raised = "RuntimeError"]
    /\ UNCHANGED <<tracking, tsdb>>

\* the successful responses of the batch, by article id
GoodResponses(batch) ==
    SetToSeq({a \in DOMAIN batch.responses : batch.responses[a] = "ok"})

\* store_results of the successful responses, then the call returns;
\* run_pipeline goes on to COMPLETED
StoreResults(outcome) ==
    LET good == GoodResponses(batches[lexec.batch])
        failures == store_batch(good, lexec.articles, outcome)
        response_json_map == [a \in Range(good) |-> lexec.batch]
    IN  /\ lexec.pc = "store"
        /\ DOMAIN outcome = DOMAIN good
        /\ OutcomePossible(good, outcome)
        /\ tsdb' = tsdb \cup Stored(good, lexec.articles, outcome)
        /\ tracking' = _mark_storage_failures(tracking, failures, response_json_map)
        /\ prun' = IF lexec.op = "analyze" THEN AfterAnalysis(prun) ELSE prun
        /\ lexec' = [IdleAnalysis EXCEPT !.op = lexec.op]
        /\ batches' = batches

\* retry_failed: the FAILED rows are deleted and their articles submitted
\* as a new batch
RetryFailed ==
    LET failed_ids == get_failed_article_ids(tracking)
    IN  /\ lexec.pc = "idle"
        /\ failed_ids # {}
        /\ Len(batches) < MaxBatches
        /\ tracking' = clear_tracking(tracking)
        /\ batches' = Append(batches, NewBatch(failed_ids))
        /\ lexec' = [IdleAnalysis EXCEPT !.op = "retry_failed", !.pc = "submitted",
                        !.articles = failed_ids, !.batch = Len(batches) + 1]
        /\ UNCHANGED <<prun, tsdb>>

\* retry_failed when provider.submit_batch raises: clear_tracking has
\* committed its delete, nothing follows it
RetryFailedRaise ==
    /\ lexec.pc = "idle"
    /\ get_failed_article_ids(tracking) # {}
    /\ tracking' = clear_tracking(tracking)
    /\ lexec' = [IdleAnalysis EXCEPT !.op = "retry_failed", !.raised = "SubmitError"]
    /\ UNCHANGED <<prun, batches, tsdb>>

\* retry_store_failed, up to its first commit: STORE_FAILED rows with a saved
\* result are SUCCESS again, those without one are FAILED
RetryStoreBegin ==
    LET rows_to_retry == {i \in DOMAIN tracking : tracking[i].status = "STORE_FAILED"}
        with_json == {i \in rows_to_retry : tracking[i].result_json # 0}
    IN  /\ lexec.pc = "idle"
        /\ rows_to_retry # {}
        /\ tracking' = [i \in DOMAIN tracking |->
                          IF i \in with_json THEN [tracking[i] EXCEPT !.status = "SUCCESS"]
                          ELSE IF i \in rows_to_retry THEN [tracking[i] EXCEPT !.status = "FAILED"]
                          ELSE tracking[i]]
        /\ lexec' = IF with_json = {} THEN [IdleAnalysis EXCEPT !.op = "retry_store"]
                    ELSE [IdleAnalysis EXCEPT !.op = "retry_store", !.pc = "rs_store",
                             !.records = with_json]
        /\ UNCHANGED <<prun, batches, tsdb>>

\* retry_store_failed, the store attempt: failures are marked, the result of
\* every record that is still SUCCESS is cleared
RetryStoreFinish(outcome) ==
    LET rows_to_retry == SetToSeq(lexec.records)
        response_ids == [k \in DOMAIN rows_to_retry |-> tracking[rows_to_retry[k]].article_id]
        response_json_map ==
            [a \in Range(response_ids) |->
                tracking[Max({i \in lexec.records : tracking[i].article_id = a})].result_json]
        failures == store_batch(response_ids, AnalysisArticles, outcome)
        marked == _mark_storage_failures(tracking, failures, response_json_map)
    IN  /\ lexec.pc = "rs_store"
        /\ DOMAIN outcome = DOMAIN rows_to_retry
        /\ OutcomePossible(response_ids, outcome)
        /\ tsdb' = tsdb \cup Stored(response_ids, AnalysisArticles, outcome)
        /\ tracking' = [i \in DOMAIN marked |->
                          IF i \in lexec.records /\ marked[i].status = "SUCCESS"
                          THEN [marked[i] EXCEPT !.result_json = 0]
                          ELSE marked[i]]
        /\ lexec' = [IdleAnalysis EXCEPT !.op = lexec.op]
        /\ UNCHANGED <<prun, batches>>

\* the process dies in the middle of a call
AnalysisCrash ==
    /\ lexec.pc # "idle"
    /\ lexec' = [IdleAnalysis EXCEPT !.op = lexec.op, !.raised = "crash"]
    /\ UNCHANGED <<prun, tracking, batches, tsdb>>

AnalysisNext ==
    \/ CreatePipelineRun /\ UNCHANGED <<crawlVars, archVars, svcVars, pexec, filterVars>>
    \/ \E all_passed_articles \in SUBSET AnalysisArticles :
          AnalysisStage(all_passed_articles) /\ UNCHANGED <<crawlVars, archVars, svcVars, pexec, filterVars>>
    \/ PersistBatchId /\ UNCHANGED <<crawlVars, archVars, svcVars, pexec, filterVars>>
    \/ CreateTracking /\ UNCHANGED <<crawlVars, archVars, svcVars, pexec, filterVars>>
    \/ \E responses \in UNION {[S -> ResponseKinds] : S \in SUBSET AnalysisArticles} :
          /\ lexec.batch \in DOMAIN batches
          /\ DOMAIN responses \subseteq batches[lexec.batch].articles
          /\ PollDone(responses)
          /\ UNCHANGED <<crawlVars, archVars, svcVars, pexec, filterVars>>
    \/ PollTimeout /\ UNCHANGED <<crawlVars, archVars, svcVars, pexec, filterVars>>
    \/ PollRaise /\ UNCHANGED <<crawlVars, archVars, svcVars, pexec, filterVars>>
    \/ \E outcome \in {<<>>} \cup SeqsUpTo(StoreOutcomes, MaxAnalysisArticles) :
          StoreResults(outcome) /\ UNCHANGED <<crawlVars, archVars, svcVars, pexec, filterVars>>
    \/ RetryFailed /\ UNCHANGED <<crawlVars, archVars, svcVars, pexec, filterVars>>
    \/ RetryFailedRaise /\ UNCHANGED <<crawlVars, archVars, svcVars, pexec, filterVars>>
    \/ RetryStoreBegin /\ UNCHANGED <<crawlVars, archVars, svcVars, pexec, filterVars>>
    \/ \E outcome \in SeqsUpTo(StoreOutcomes, MaxTrackingRows) :
          RetryStoreFinish(outcome) /\ UNCHANGED <<crawlVars, archVars, svcVars, pexec, filterVars>>
    \/ AnalysisCrash /\ UNCHANGED <<crawlVars, archVars, svcVars, pexec, filterVars>>

AnalysisSpec == PipeInit /\ [][AnalysisNext]_vars

\* -------------------------------------------------------- analysis claims
\* the tracking rows of one article of one batch
RowsOf(rows, article_id, batch_id) ==
    {i \in DOMAIN rows :
        rows[i].article_id = article_id /\ rows[i].batch_id = batch_id}

\* C23: when polling runs into max_wait during run_pipeline, the run is
\* left PAUSED, not FAILED, with batch_id still the polled batch; nothing is
\* sent to the provider and the tracking rows of the batch stay PENDING.
C23_TimeoutPauses ==
    [][(PollTimeout /\ lexec.op = "analyze") =>
          /\ prun'.status = "PAUSED"
          /\ lexec.batch # 0
          /\ prun'.batch_id = lexec.batch
          /\ batches' = batches
          /\ tracking' = tracking
          /\ \A i \in DOMAIN tracking :
                (tracking[i].batch_id = lexec.batch /\ tracking[i].status = "PENDING")
                   => tracking'[i].status = "PENDING"]_vars

\* a run paused by a polling timeout: its batch is still in progress and has
\* PENDING rows
C23_PausedOnTimeout ==
    /\ prun.status = "PAUSED"
    /\ lexec.op = "analyze"
    /\ lexec.raised = "TimeoutError"
    /\ prun.batch_id \in DOMAIN batches
    /\ batches[prun.batch_id].status = "in_progress"
    /\ \E i \in DOMAIN tracking :
          tracking[i].batch_id = prun.batch_id /\ tracking[i].status = "PENDING"

\* C24: analyze_articles on a run with a batch_id submits nothing and polls
\* that batch; and when the tracking rows of the batch were never written
\* (the process died after the batch_id was persisted), the resumed call
\* ends with exactly one tracking row per article of the batch, none of them
\* PENDING.
C24_ResumeCompletesTracking ==
    /\ [][\A all_passed_articles \in SUBSET AnalysisArticles :
             (AnalysisStage(all_passed_articles) /\ prun.batch_id # 0) =>
                /\ batches' = batches
                /\ lexec'.pc # "idle" =>
                      lexec'.pc = "poll" /\ lexec'.batch = prun.batch_id]_vars
    /\ [][(/\ lexec.resumed
           /\ ~batches[lexec.batch].tracked
           /\ \E outcome \in {<<>>} \cup SeqsUpTo(StoreOutcomes, MaxAnalysisArticles) :
                 StoreResults(outcome)) =>
             \A a \in batches[lexec.batch].articles :
                /\ Cardinality(RowsOf(tracking', a, lexec.batch)) = 1
                /\ \A i \in RowsOf(tracking', a, lexec.batch) :
                      tracking'[i].status # "PENDING"]_vars

\* C25: a SUCCESS row has no result_json, a STORE_FAILED row has one, and no
\* row in another status has one.
C25_ResultJsonOnlyOnStoreFailed ==
    \A i \in DOMAIN tracking :
        /\ tracking[i].status = "SUCCESS" => tracking[i].result_json = 0
        /\ tracking[i].status = "STORE_FAILED" => tracking[i].result_json # 0
        /\ tracking[i].result_json # 0 => tracking[i].status = "STORE_FAILED"

\* C26: when analyze_articles has stored a completed batch, the row of each
\* article with a good response is SUCCESS when its store committed,
\* STORE_FAILED with the result kept when the store failed on the
\* connection, FAILED when it failed on the data; and a retry_store_failed
\* that stores a STORE_FAILED row leaves it SUCCESS with no result_json.
C26_TwoTierStoreFailure ==
    /\ [][\A outcome \in {<<>>} \cup SeqsUpTo(StoreOutcomes, MaxAnalysisArticles) :
             (StoreResults(outcome) /\ lexec.op = "analyze") =>
                \A k \in DOMAIN outcome :
                   \E i \in RowsOf(tracking', GoodResponses(batches[lexec.batch])[k],
                                   lexec.batch) :
                      LET result == StoreOutcome(GoodResponses(batches[lexec.batch]),
                                                 lexec.articles, outcome, k)
                      IN  /\ result = "stored" =>
                                tracking'[i].status = "SUCCESS"
                                   /\ tracking'[i].result_json = 0
                          /\ result = "transient" =>
                                tracking'[i].status = "STORE_FAILED"
                                   /\ tracking'[i].result_json = lexec.batch
                          /\ result = "data" => tracking'[i].status = "FAILED"]_vars
    /\ [][\A outcome \in SeqsUpTo(StoreOutcomes, MaxTrackingRows) :
             RetryStoreFinish(outcome) =>
                \A k \in DOMAIN outcome :
                   (\A n \in DOMAIN outcome : outcome[n] = "stored") =>
                      /\ tracking'[SetToSeq(lexec.records)[k]].status = "SUCCESS"
                      /\ tracking'[SetToSeq(lexec.records)[k]].result_json = 0]_vars

\* C27: retry_failed deletes the FAILED rows and no other row and submits
\* the articles of those rows and no other article; retry_store_failed
\* submits nothing and changes no row that was not STORE_FAILED when it began.
C27_RetryFrames ==
    /\ [][RetryFailed =>
             /\ tracking' = SelectSeq(tracking, LAMBDA r : r.status # "FAILED")
             /\ batches'[Len(batches')].articles =
                   {tracking[i].article_id :
                       i \in {j \in DOMAIN tracking : tracking[j].status = "FAILED"}}]_vars
    /\ [][RetryStoreBegin =>
             /\ batches' = batches
             /\ \A i \in DOMAIN tracking :
                   tracking[i].status # "STORE_FAILED" => tracking'[i] = tracking[i]]_vars
    /\ [][(\E outcome \in SeqsUpTo(StoreOutcomes, MaxTrackingRows) :
              RetryStoreFinish(outcome)) =>
             /\ batches' = batches
             /\ \A i \in DOMAIN tracking :
                   i \notin lexec.records => tracking'[i] = tracking[i]]_vars

\* ========================================================== reparse engine
MaxReparse == 2
ProgressEvery == 10

\* how one iteration over an article with raw_html in the database can end
InDbOutcomes == {"parsed", "raised"}

\* how one iteration over an archive record can end
ArchivedOutcomes == {"parsed", "raised", "no_html", "no_article"}

\* where the worker goes after iteration i of the in-DB loop
AfterInDb(w, i) ==
    IF i < w.in_db THEN [w EXCEPT !.pc = "check_db", !.i = i + 1]
    ELSE IF w.archived > 0 THEN [w EXCEPT !.pc = "check_arch", !.i = 1]
    ELSE [w EXCEPT !.pc = "final", !.i = 0]

\* where the worker goes after iteration i of the archived loop
AfterArchived(w, i) ==
    IF i < w.archived THEN [w EXCEPT !.pc = "check_arch", !.i = i + 1]
    ELSE [w EXCEPT !.pc = "final", !.i = 0]

_update_job_status(job, status) == [job EXCEPT !.status = status]

_update_job_progress(job, processed, failed) ==
    [job EXCEPT !.processed_count = processed, !.failed_count = failed]

\* start_reparse_job: the job row is committed PENDING, the cancel event is
\* registered in _running_jobs and the worker thread is started
StartReparseJob(in_db, archived, has_crawler) ==
    /\ rworker.pc = "none"
    /\ rjob' = [NoReparseJob EXCEPT !.status = "PENDING",
                                    !.total_count = in_db + archived]
    /\ rworker' = [NoWorker EXCEPT !.pc = "start", !.has_crawler = has_crawler,
                                   !.in_db = in_db, !.archived = archived,
                                   !.registered = TRUE]

\* _run_reparse_job up to the first loop: no crawler for the source fails the
\* job, otherwise the job is RUNNING and the two lists are loaded
WorkerBegin ==
    /\ rworker.pc = "start"
    /\ IF ~rworker.has_crawler
       THEN /\ rjob' = _update_job_status(rjob, "FAILED")
            /\ rworker' = [rworker EXCEPT !.pc = "cleanup"]
       ELSE /\ rjob' = _update_job_status(rjob, "RUNNING")
            /\ rworker' = AfterInDb([rworker EXCEPT !.in_db = @], 0)

\* the head of an iteration: cancel_event.is_set()
WorkerCheck ==
    /\ rworker.pc \in {"check_db", "check_arch"}
    /\ IF rworker.cancel_event
       THEN /\ rjob' = _update_job_status(rjob, "CANCELLED")
            /\ rworker' = [rworker EXCEPT !.pc = "cleanup"]
       ELSE /\ rjob' = rjob
            /\ rworker' = [rworker EXCEPT
                             !.pc = IF @ = "check_db" THEN "body_db" ELSE "body_arch"]

\* the body of an iteration of the in-DB loop
WorkerInDb(outcome) ==
    LET processed == rworker.processed + (IF outcome = "parsed" THEN 1 ELSE 0)
        failed == rworker.failed + (IF outcome = "raised" THEN 1 ELSE 0)
        w == [rworker EXCEPT !.processed = processed, !.failed = failed,
                             !.reparsed = @ + 1]
    IN  /\ rworker.pc = "body_db"
        /\ rjob' = IF processed % ProgressEvery = 0
                   THEN _update_job_progress(rjob, processed, failed)
                   ELSE rjob
        /\ rworker' = AfterInDb(w, rworker.i)

\* the body of an iteration of the archived loop; the two `continue`
\* branches skip the progress update
WorkerArchived(outcome) ==
    LET processed == rworker.processed + (IF outcome = "parsed" THEN 1 ELSE 0)
        failed == rworker.failed + (IF outcome # "parsed" THEN 1 ELSE 0)
        w == [rworker EXCEPT !.processed = processed, !.failed = failed,
                             !.reparsed = @ + (IF outcome \in {"parsed", "raised"}
                                               THEN 1 ELSE 0)]
    IN  /\ rworker.pc = "body_arch"
        /\ rjob' = IF outcome \in {"parsed", "raised"} /\ processed % ProgressEvery = 0
                   THEN _update_job_progress(rjob, processed, failed)
                   ELSE rjob
        /\ rworker' = AfterArchived(w, rworker.i)

\* both loops are over: the last commit and the final status
WorkerFinish ==
    /\ rworker.pc = "final"
    /\ rjob' = [rjob EXCEPT !.status = "COMPLETED",
                            !.processed_count = rworker.processed,
                            !.failed_count = rworker.failed]
    /\ rworker' = [rworker EXCEPT !.pc = "cleanup"]

\* an exception leaves _run_reparse_job (a commit fails): the wrapper marks
\* the job FAILED
WorkerRaise ==
    /\ rworker.pc \in {"body_db", "body_arch", "final"}
    /\ rjob' = _update_job_status(rjob, "FAILED")
    /\ rworker' = [rworker EXCEPT !.pc = "cleanup"]

\* the finally clause of _run_reparse_job_sync
WorkerCleanup ==
    /\ rworker.pc = "cleanup"
    /\ rjob' = rjob
    /\ rworker' = [rworker EXCEPT !.pc = "done", !.registered = FALSE]

\* cancel_job on the request thread, at any moment after the job was started
CancelJob ==
    /\ rworker.pc # "none"
    /\ rjob' = rjob
    /\ rworker' = IF rworker.registered
                  THEN [rworker EXCEPT !.cancel_event = TRUE, !.returned = "true"]
                  ELSE [rworker EXCEPT !.returned = "false"]

ReparseInit ==
    /\ env = SingleWorker
    /\ pending = <<>>
    /\ articles = <<>>
    /\ lticks = [t \in ListTicks |-> IdleList]
    /\ aticks = [t \in ArticleTicks |-> IdleArticle]
    /\ ExecIdle
    /\ SvcIdle
    /\ ArchiveIdle
    /\ PipeIdle

ReparseNext ==
    \/ \E in_db \in 0..MaxReparse, archived \in 0..MaxReparse, has_crawler \in BOOLEAN :
          StartReparseJob(in_db, archived, has_crawler) /\ UNCHANGED <<crawlVars, archVars, pipeVars, tsrows, tscall, cdb, poll>>
    \/ WorkerBegin /\ UNCHANGED <<crawlVars, archVars, pipeVars, tsrows, tscall, cdb, poll>>
    \/ WorkerCheck /\ UNCHANGED <<crawlVars, archVars, pipeVars, tsrows, tscall, cdb, poll>>
    \/ \E outcome \in InDbOutcomes :
          WorkerInDb(outcome) /\ UNCHANGED <<crawlVars, archVars, pipeVars, tsrows, tscall, cdb, poll>>
    \/ \E outcome \in ArchivedOutcomes :
          WorkerArchived(outcome) /\ UNCHANGED <<crawlVars, archVars, pipeVars, tsrows, tscall, cdb, poll>>
    \/ WorkerFinish /\ UNCHANGED <<crawlVars, archVars, pipeVars, tsrows, tscall, cdb, poll>>
    \/ WorkerRaise /\ UNCHANGED <<crawlVars, archVars, pipeVars, tsrows, tscall, cdb, poll>>
    \/ WorkerCleanup /\ UNCHANGED <<crawlVars, archVars, pipeVars, tsrows, tscall, cdb, poll>>
    \/ CancelJob /\ UNCHANGED <<crawlVars, archVars, pipeVars, tsrows, tscall, cdb, poll>>

ReparseSpec == ReparseInit /\ [][ReparseNext]_vars


\* -------------------------------------------------------- reparse claims
\* C31: once cancel_job has returned true (the flag is set), the worker
\* reparses no article at or after its next iteration boundary, the boundary
\* marks the job CANCELLED, and the job the worker leaves behind is CANCELLED.
C31_CancelledAfterCancel ==
    /\ [][(rworker.cancel_event /\ rworker.pc \in {"check_db", "check_arch"}) =>
             /\ rworker'.reparsed = rworker.reparsed
             /\ (rworker'.pc # rworker.pc => rjob'.status = "CANCELLED")]_vars
    /\ []((rworker.pc = "done" /\ rworker.cancel_event) => rjob.status = "CANCELLED")

\* ======================================================== analytical store
MaxStoreCalls == 3
MaxResponses == 2
DedupWindowDays == 7

\* the days an article can be published on (crawled_at when published_at is
\* missing): inside and outside the window of each other
PublishDays == {0, DedupWindowDays + 1}

StoreArticleIds == 1..2

\* the NewsArticle rows a call is given: url_hash is the row's own, the
\* publication day is what the row holds when the call is made
ArticlesMaps ==
    [StoreArticleIds -> [url_hash : {"h"}, published_at : PublishDays]]

\* the parsed analysis of each article: its entities and events by normalized
\* name; article 1 names one entity twice
AnalysisOf(article_id) ==
    IF article_id = 1
    THEN [entities |-> <<"e1", "e1">>, events |-> <<"v1">>]
    ELSE [entities |-> <<"e1">>, events |-> <<>>]

ExternalId(articles_map, article_id) ==
    <<articles_map[article_id].url_hash, article_id>>

\* how one _store_single_article transaction can end
TransactionOutcomes == {"commit", "OperationalError", "Exception"}

ResponseLists == SeqsUpTo(StoreArticleIds, MaxResponses) \ {<<>>}

\* never finds a row
_article_exists_never(rows, external_id, published_at) == FALSE

\* SELECT 1 FROM articles WHERE external_id = :eid AND published_at within
\* seven days of the given one
_article_exists(rows, external_id, published_at) ==
    \E i \in DOMAIN rows.articles :
        /\ rows.articles[i].external_id = external_id
        /\ rows.articles[i].published_at >= published_at - DedupWindowDays
        /\ rows.articles[i].published_at <= published_at + DedupWindowDays

\* INSERT ... ON CONFLICT (published_at, article_id, ref) DO NOTHING, for each
\* name of the list in turn
RECURSIVE InsertJunction(_, _, _, _)
InsertJunction(table, published_at, article_uuid, names) ==
    IF names = <<>> THEN table
    ELSE LET row == [published_at |-> published_at, article_id |-> article_uuid,
                     ref |-> Head(names)]
         IN  InsertJunction(IF \E i \in DOMAIN table : table[i] = row
                            THEN table ELSE Append(table, row),
                            published_at, article_uuid, Tail(names))

\* one transaction: nothing when the article is already there, otherwise the
\* article row and its junction rows; an exception rolls everything back
_store_single_article(rows, articles_map, article_id, outcome) ==
    LET published_at == articles_map[article_id].published_at
        external_id == ExternalId(articles_map, article_id)
        article_uuid == Len(rows.articles) + 1
        analysis == AnalysisOf(article_id)
    IN  IF outcome # "commit" THEN rows
        ELSE IF _article_exists(rows, external_id, published_at) THEN rows
        ELSE [articles |-> Append(rows.articles,
                              [id |-> article_uuid, external_id |-> external_id,
                               published_at |-> published_at]),
              article_entities |-> InsertJunction(rows.article_entities, published_at,
                                                  article_uuid, analysis.entities),
              article_events |-> InsertJunction(rows.article_events, published_at,
                                                article_uuid, analysis.events)]

\* the loop of store_batch over the responses, from response k on
RECURSIVE StoreLoop(_, _, _, _, _)
StoreLoop(rows, articles_map, responses, outcome, k) ==
    IF k > Len(responses) THEN [rows |-> rows, stored |-> 0, failures |-> <<>>]
    ELSE LET after == _store_single_article(rows, articles_map, responses[k], outcome[k])
             rest == StoreLoop(after, articles_map, responses, outcome, k + 1)
         IN  IF outcome[k] = "commit"
             THEN [rest EXCEPT !.stored = @ + 1]
             ELSE [rest EXCEPT !.failures =
                      <<[article_id |-> responses[k],
                         is_transient |-> (outcome[k] = "OperationalError")]>> \o @]

\* store_batch(articles_map, responses)
StoreBatch(articles_map, responses, outcome) ==
    LET result == StoreLoop(tsrows, articles_map, responses, outcome, 1)
    IN  /\ tscall.calls < MaxStoreCalls
        /\ Len(outcome) = Len(responses)
        /\ tsrows' = result.rows
        /\ tscall' = [calls |-> tscall.calls + 1, articles_map |-> articles_map,
                      responses |-> responses, outcome |-> outcome,
                      stored |-> result.stored, failures |-> result.failures,
                      inserted |-> Len(result.rows.articles) - Len(tsrows.articles)]

StoreInit == ReparseInit

StoreNext ==
    \E articles_map \in ArticlesMaps, responses \in ResponseLists,
       outcome \in SeqsUpTo(TransactionOutcomes, MaxResponses) :
        StoreBatch(articles_map, responses, outcome)
            /\ UNCHANGED <<crawlVars, archVars, pipeVars, rjob, rworker, cdb, poll>>

StoreSpec == StoreInit /\ [][StoreNext]_vars

\* ------------------------------------------------- analytical store claims
\* the response at position k of the last call was committed by that call
CommittedIn(call, article_id) ==
    \E k \in DOMAIN call.responses :
        call.responses[k] = article_id /\ call.outcome[k] = "commit"

\* store_batch is called again with the articles and responses of the call
\* before it
SameCallAgain ==
    /\ tscall.calls > 0
    /\ StoreBatch(tscall.articles_map, tscall.responses, tscall'.outcome)

\* C32: when store_batch is called a second time with the same articles and
\* responses, no article that the first call committed is inserted again and
\* each counts as stored when its transaction commits; the store never holds two
\* junction rows with the same key, and after the second call every article
\* of the batch has at most one Article row of its external_id near its day.
C32_StoreBatchIdempotent ==
    /\ [][SameCallAgain =>
             /\ \A a \in StoreArticleIds :
                   CommittedIn(tscall, a) =>
                      Cardinality({i \in DOMAIN tsrows'.articles :
                                     tsrows'.articles[i].external_id
                                        = ExternalId(tscall.articles_map, a)})
                        = Cardinality({i \in DOMAIN tsrows.articles :
                                     tsrows.articles[i].external_id
                                        = ExternalId(tscall.articles_map, a)})
             /\ (\A k \in DOMAIN tscall.outcome : tscall.outcome[k] = "commit") =>
                   /\ tsrows' = tsrows
                   /\ (\A k \in DOMAIN tscall'.outcome : tscall'.outcome[k] = "commit")
                         => tscall'.stored = Len(tscall.responses)
             /\ \A a \in StoreArticleIds :
                   Cardinality({i \in DOMAIN tsrows'.articles :
                                  /\ tsrows'.articles[i].external_id
                                        = ExternalId(tscall.articles_map, a)
                                  /\ tsrows'.articles[i].published_at
                                        = tscall.articles_map[a].published_at}) <= 1]_vars
    /\ [](\A i, j \in DOMAIN tsrows.article_entities :
             tsrows.article_entities[i] = tsrows.article_entities[j] => i = j)
    /\ [](\A i, j \in DOMAIN tsrows.article_events :
             tsrows.article_events[i] = tsrows.article_events[j] => i = j)

\* a second call with the same input counted two committed articles as stored
\* and inserted nothing
C32_SecondCallSkips ==
    /\ tscall.calls = 2
    /\ tscall.responses = <<1, 2>>
    /\ tscall.stored = 2
    /\ tscall.inserted = 0
    /\ Len(tsrows.articles) = 2
    /\ Len(tsrows.article_entities) = 2

\* ========================================================== registry sync
MaxSyncs == 2
MaxItemsTotal == 1

RegistryNames == {"a", "b"}

\* what the code of a crawler class declares, before and after a release
\* that renames it and moves it to another source and kind
CrawlerClasses ==
    { [display_name |-> "d1", crawler_type |-> "LIST", source |-> "X",
       default_interval_minutes |-> 60, default_timeout_seconds |-> 300],
      [display_name |-> "d2", crawler_type |-> "ARTICLE", source |-> "Y",
       default_interval_minutes |-> 30, default_timeout_seconds |-> 600] }

\* discover_crawlers(): the crawlers the code base holds, by name
Registries ==
    UNION { [names -> CrawlerClasses] : names \in SUBSET RegistryNames }

\* the row sync inserts for a crawler it does not find
CreateConfig(crawler, now) ==
    [display_name |-> crawler.display_name, crawler_type |-> crawler.crawler_type,
     source |-> crawler.source,
     interval_minutes |-> crawler.default_interval_minutes,
     timeout_seconds |-> crawler.default_timeout_seconds,
     is_active |-> TRUE, last_run_status |-> "IDLE", last_run_time |-> 0,
     error_log |-> "", last_run_items_count |-> 0, total_items_count |-> 0,
     updated_at |-> now]

\* also puts the class defaults back
UpdateExistingWithDefaults(existing, crawler, now) ==
    [CreateConfig(crawler, now) EXCEPT !.is_active = existing.is_active]

\* what sync writes on a row it finds
UpdateExisting(existing, crawler, now) ==
    [existing EXCEPT !.display_name = crawler.display_name,
                     !.crawler_type = crawler.crawler_type,
                     !.source = crawler.source,
                     !.updated_at = now]

\* sync_crawlers_to_db at start-up
SyncCrawlersToDb(crawlers) ==
    LET now == cdb.syncs + 1
    IN  /\ cdb.syncs < MaxSyncs
        /\ cdb' = [rows |-> [n \in DOMAIN cdb.rows \cup DOMAIN crawlers |->
                               IF n \notin DOMAIN crawlers THEN cdb.rows[n]
                               ELSE IF n \in DOMAIN cdb.rows
                                    THEN UpdateExisting(cdb.rows[n], crawlers[n], now)
                                    ELSE CreateConfig(crawlers[n], now)],
                   syncs |-> now]

\* toggle_active
ToggleActive(name) ==
    /\ name \in DOMAIN cdb.rows
    /\ cdb' = [cdb EXCEPT !.rows[name].is_active = ~@]

\* update_interval
UpdateInterval(name, interval_minutes) ==
    /\ name \in DOMAIN cdb.rows
    /\ cdb.rows[name].interval_minutes # interval_minutes
    /\ cdb' = [cdb EXCEPT !.rows[name].interval_minutes = interval_minutes]

\* the status columns a finished tick writes
RecordRun(name, status, items_count) ==
    /\ name \in DOMAIN cdb.rows
    /\ cdb.rows[name].total_items_count + items_count <= MaxItemsTotal
    /\ status = "FAILED" => items_count = 0
    /\ cdb' = [cdb EXCEPT !.rows[name].last_run_status = status,
                          !.rows[name].last_run_time = 1,
                          !.rows[name].error_log = IF status = "FAILED" THEN "error" ELSE "",
                          !.rows[name].last_run_items_count = items_count,
                          !.rows[name].total_items_count = @ + items_count]

SyncInit == ReparseInit

SyncNext ==
    \/ \E crawlers \in Registries :
          SyncCrawlersToDb(crawlers)
             /\ UNCHANGED <<crawlVars, archVars, pipeVars, rjob, rworker, tsrows, tscall, poll>>
    \/ \E name \in RegistryNames :
          ToggleActive(name)
             /\ UNCHANGED <<crawlVars, archVars, pipeVars, rjob, rworker, tsrows, tscall, poll>>
    \/ \E name \in RegistryNames, interval_minutes \in {15, 60} :
          UpdateInterval(name, interval_minutes)
             /\ UNCHANGED <<crawlVars, archVars, pipeVars, rjob, rworker, tsrows, tscall, poll>>
    \/ \E name \in RegistryNames, status \in {"SUCCESS", "FAILED"},
          items_count \in 0..MaxItemsTotal :
          RecordRun(name, status, items_count)
             /\ UNCHANGED <<crawlVars, archVars, pipeVars, rjob, rworker, tsrows, tscall, poll>>

SyncSpec == SyncInit /\ [][SyncNext]_vars

\* ---------------------------------------------------- registry sync claims
\* the columns sync may write
SyncedColumns == {"display_name", "crawler_type", "source", "updated_at"}

\* C33: a sync leaves every column of an existing row as it was, except
\* display_name, source, kind and updated_at; it deletes no row and inserts a
\* row only for a discovered name that had none.
C33_SyncPreservesOperatorState ==
    [][(cdb'.syncs = cdb.syncs + 1) =>
          /\ DOMAIN cdb.rows \subseteq DOMAIN cdb'.rows
          /\ \A n \in DOMAIN cdb.rows :
                \A c \in DOMAIN cdb.rows[n] \ SyncedColumns :
                    cdb'.rows[n][c] = cdb.rows[n][c]
          /\ \E crawlers \in Registries :
                /\ DOMAIN cdb'.rows = DOMAIN cdb.rows \cup DOMAIN crawlers
                /\ \A n \in DOMAIN crawlers :
                      /\ cdb'.rows[n].display_name = crawlers[n].display_name
                      /\ cdb'.rows[n].source = crawlers[n].source
                      /\ cdb'.rows[n].crawler_type = crawlers[n].crawler_type]_vars

\* a second sync has renamed a crawler whose interval the operator changed,
\* which was switched off and has run
C33_SyncedAfterOperatorChange ==
    /\ cdb.syncs = 2
    /\ "a" \in DOMAIN cdb.rows
    /\ cdb.rows["a"].display_name = "d2"
    /\ cdb.rows["a"].updated_at = 2
    /\ cdb.rows["a"].interval_minutes = 15
    /\ ~cdb.rows["a"].is_active
    /\ cdb.rows["a"].last_run_status = "FAILED"
    /\ cdb.rows["a"].total_items_count = 1

\* ----------------------------------------------- filter rows and statistics
\* the RULE_FILTER rows the run has for an article
FilterRowsOf(run, article_id) ==
    {i \in DOMAIN run.article_rows : run.article_rows[i] = article_id}

\* C34: in every committed state the run has at most one RULE_FILTER row for
\* each article, also after a paused run was run again.
C34_OneFilterRowPerArticle ==
    \A article_id \in 1..MaxPipeArticles :
        Cardinality(FilterRowsOf(prun, article_id)) <= 1

\* the statistics of the run are the counts of its RULE_FILTER rows
StatsAgree(run) ==
    /\ run.rule_filtered_count = run.filter_rows - run.kept_rows - run.forced_rows
    /\ run.rule_passed_count = run.kept_rows + run.forced_rows
    /\ run.force_included_count = run.forced_rows
    /\ run.rule_filtered_count + run.rule_passed_count = run.filter_rows

\* C39: when RULE_FILTER has finished and when the run is completed, the
\* counters of the run equal the numbers of its FILTER rows, of its KEEP plus
\* FORCE_INCLUDE rows and of its FORCE_INCLUDE rows, and filtered plus passed
\* is the number of its RULE_FILTER rows.
C39_StatsAgreeWithRows ==
    [][((\E last_group \in PassedDecisions : PipeFilterDone(last_group))
          \/ (\E last_group \in PassedDecisions : PipeFinalize(last_group)))
         => StatsAgree(prun')]_vars

\* ================================================================ polling
MaxPolls == 3

\* the status strings of the provider's batch object
OpenAIStatuses ==
    {"validating", "in_progress", "finalizing", "completed",
     "failed", "expired", "cancelling", "cancelled"}

\* _STATUS_MAP: the provider's status string as a BatchStatus
_STATUS_MAP(status) ==
    CASE status = "validating" -> "PENDING"
      [] status \in {"in_progress", "finalizing"} -> "IN_PROGRESS"
      [] status = "completed" -> "COMPLETED"
      [] status = "failed" -> "FAILED"
      [] status = "expired" -> "EXPIRED"
      [] status = "cancelling" -> "CANCELLING"
      [] status = "cancelled" -> "CANCELLED"
      [] OTHER -> "PENDING"

\* the statuses on which _poll_batch raises RuntimeError
RaisingStatuses == {"FAILED", "EXPIRED", "CANCELLED"}

\* _poll_batch is called
PollBegin ==
    /\ poll.pc \in {"idle", "done"}
    /\ poll' = [NoPoll EXCEPT !.pc = "polling"]

\* one turn of the loop: check_batch_status, then retrieve the results,
\* raise, or sleep for poll_interval
PollCheck(status) ==
    /\ poll.pc = "polling"
    /\ poll.elapsed < MaxPolls
    /\ poll' = IF _STATUS_MAP(status) = "COMPLETED"
               THEN [poll EXCEPT !.pc = "done", !.seen = Append(@, status),
                                 !.outcome = "results"]
               ELSE IF _STATUS_MAP(status) \in RaisingStatuses
               THEN [poll EXCEPT !.pc = "done", !.seen = Append(@, status),
                                 !.outcome = "RuntimeError"]
               ELSE [poll EXCEPT !.seen = Append(@, status), !.elapsed = @ + 1]

\* elapsed has reached max_wait
PollExpire ==
    /\ poll.pc = "polling"
    /\ poll.elapsed >= MaxPolls
    /\ poll' = [poll EXCEPT !.pc = "done", !.outcome = "TimeoutError"]

PollInit == ReparseInit

PollNext ==
    \/ PollBegin
          /\ UNCHANGED <<crawlVars, archVars, pipeVars, rjob, rworker, tsrows, tscall, cdb>>
    \/ \E status \in OpenAIStatuses :
          PollCheck(status)
             /\ UNCHANGED <<crawlVars, archVars, pipeVars, rjob, rworker, tsrows, tscall, cdb>>
    \/ PollExpire
          /\ UNCHANGED <<crawlVars, archVars, pipeVars, rjob, rworker, tsrows, tscall, cdb>>

PollSpec == PollInit /\ [][PollNext]_vars

\* --------------------------------------------------------- polling claims
\* the status the call has just observed
LastSeen(p) == p.seen[Len(p.seen)]

\* C35: a poll that observes failed, expired, cancelling or cancelled stops
\* and raises; one that observes validating, in_progress or finalizing goes
\* on polling; one that observes completed retrieves the results.
C35_TerminalStatusesRaise ==
    [][(poll.pc = "polling" /\ Len(poll'.seen) = Len(poll.seen) + 1) =>
          /\ LastSeen(poll') \in {"failed", "expired", "cancelling", "cancelled"} =>
                poll'.pc = "done" /\ poll'.outcome = "RuntimeError"
          /\ LastSeen(poll') \in {"validating", "in_progress", "finalizing"} =>
                poll'.pc = "polling"
          /\ LastSeen(poll') = "completed" =>
                poll'.pc = "done" /\ poll'.outcome = "results"]_vars

\* ------------------------------------------------- article-crawl tick claims
\* one site with two URLs, one list worker and one article worker whose
\* crawler takes every PENDING URL of the source in one tick
TickDeployment ==
    [sites |-> [u \in 1..(MaxUrls - 1) |-> "X"], batch_size |-> NoBatchLimit,
     list_workers |-> MaxWorkers - 1, article_workers |-> MaxWorkers - 1]

TickInit ==
    /\ env = TickDeployment
    /\ pending = <<>>
    /\ articles = <<>>
    /\ lticks = [t \in ListTicks |-> IdleList]
    /\ aticks = [t \in ArticleTicks |-> IdleArticle]
    /\ ExecIdle
    /\ SvcIdle
    /\ ArchiveIdle
    /\ PipeIdle

TickSpec == TickInit /\ [][ExecNext]_vars

\* the leased rows the result loops of a tick have not reached yet
Unmarked(tick) == Range(tick.arts) \cup Range(tick.fails)

\* the step is the commit of a saved article and its COMPLETED mark
SavedArticle(t) == ExecTickStoreArticle(t) /\ articles' # articles

Matched(ids) ==
    {r \in DOMAIN records :
        records[r].article_id \in ids /\ records[r].status = "ARCHIVED"}

\* the dict restore_raw_html returns
restore_counts(ids) ==
    [restored_count |-> Cardinality(Restorable(ids)),
     failed_count |-> Cardinality(Matched(ids) \ Restorable(ids))]

\* the requested ids the call did not restore
FailedIds(ids) == ids \ {records[r].article_id : r \in Restorable(ids)}

\* C37: a restore counts every requested id it does not restore as a
\* failure, so restored_count + failed_count is the number of requested ids,
\* and it leaves the article and the records of a failed id as they were.
C37_RestoreCountsEveryId ==
    [][\A ids \in RestoreCalls :
          Restore(ids) =>
             /\ restore_counts(ids).restored_count + restore_counts(ids).failed_count
                   = Cardinality(ids)
             /\ \A id \in FailedIds(ids) :
                   /\ id \in DOMAIN store => store'[id] = store[id]
                   /\ \A r \in DOMAIN records :
                         records[r].article_id = id => records'[r] = records[r]]_vars

\* ------------------------------------------------------ retry_failed claims
\* the articles that hold a tracking row
Tracked(rows) == {rows[i].article_id : i \in DOMAIN rows}

\* C40: when submit_batch raises during retry_failed, the tracking table is
\* as it was before the call, so every article that had a FAILED row still
\* has a tracking row and a later retry_failed finds it.
C40_RetryFailedKeepsRows ==
    [][RetryFailedRaise =>
          /\ tracking' = tracking
          /\ get_failed_article_ids(tracking) \subseteq Tracked(tracking')
          /\ get_failed_article_ids(tracking) \subseteq get_failed_article_ids(tracking')]_vars

\* ------------------------------------------------- a run driven to its end
\* run_pipeline is called on the run again and again; each call goes as far
\* as the provider lets it.  A call that is due is made and a step that is
\* due is taken: the caller drives the run until nothing is left to do.
DriveSubmit ==
    \E all_passed_articles \in SUBSET AnalysisArticles :
        AnalysisStage(all_passed_articles)
           /\ UNCHANGED <<crawlVars, archVars, svcVars, pexec, filterVars>>

DriveCommit ==
    \/ PersistBatchId /\ UNCHANGED <<crawlVars, archVars, svcVars, pexec, filterVars>>
    \/ CreateTracking /\ UNCHANGED <<crawlVars, archVars, svcVars, pexec, filterVars>>

DrivePoll ==
    \/ \E responses \in UNION {[S -> ResponseKinds] : S \in SUBSET AnalysisArticles} :
          /\ lexec.batch \in DOMAIN batches
          /\ DOMAIN responses \subseteq batches[lexec.batch].articles
          /\ PollDone(responses)
          /\ UNCHANGED <<crawlVars, archVars, svcVars, pexec, filterVars>>
    \/ PollTimeout /\ UNCHANGED <<crawlVars, archVars, svcVars, pexec, filterVars>>
    \/ PollRaise /\ UNCHANGED <<crawlVars, archVars, svcVars, pexec, filterVars>>

DriveStore ==
    \E outcome \in {<<>>} \cup SeqsUpTo(StoreOutcomes, MaxAnalysisArticles) :
        StoreResults(outcome) /\ UNCHANGED <<crawlVars, archVars, svcVars, pexec, filterVars>>

DriveNext == DriveSubmit \/ DriveCommit \/ DrivePoll \/ DriveStore

DriveSpec ==
    /\ PipeInit
    /\ [][DriveNext]_vars
    /\ WF_vars(DriveSubmit)
    /\ WF_vars(DriveCommit)
    /\ WF_vars(DrivePoll)
    /\ WF_vars(DriveStore)

\* ---------------------------------------------------------- tracking claims
\* the article holds a PENDING row of the batch
PendingIn(article_id, batch_id) ==
    \E i \in DOMAIN tracking :
        /\ tracking[i].article_id = article_id
        /\ tracking[i].batch_id = batch_id
        /\ tracking[i].status = "PENDING"

\* the provider is done with the batch: completed, or failed, expired or
\* cancelled
BatchTerminal(batch_id) ==
    /\ batch_id \in DOMAIN batches
    /\ batches[batch_id].status \in {"completed", "expired"}

\* C38: once the batch of a PENDING tracking row is terminal at the provider
\* and the run is driven again, the row leaves PENDING, also when the
\* provider returned no line for its article.
C38_PendingRowsLeave ==
    \A a \in AnalysisArticles, b \in 1..MaxBatches :
        (PendingIn(a, b) /\ BatchTerminal(b)) ~> ~PendingIn(a, b)

====
